---- MODULE Spec2Model ----
(***************************************************************************)
(* Appointment scheduling and invoice/payment reconciliation of the        *)
(* OperlyService backend (AppointmentsService, BillingService, DateUtils), *)
(* with the storage layer's unique indexes.                                *)
(*                                                                         *)
(* Clock-time strings "HH:mm" are pairs <<hh, mm>>; the string order the   *)
(* code uses (startTime < openTime) is the lexicographic order of pairs.   *)
(* Calendar dates are day numbers, weekday = day % 7 with 0 = SUNDAY (the  *)
(* process time zone is taken to be UTC, as on the serverless deployment). *)
(* Money is counted in whole currency units.                               *)
(***************************************************************************)
EXTENDS Integers, Sequences, FiniteSets, TLC

\* ------------------------------------------------------------------ bounds
MaxAppts == 2
MaxInvoices == 2
MaxPayments == 2
MaxClock == 1
MaxNumbered == 3
MaxOwned == 1

\* ------------------------------------------------------------ fixed tables
Businesses == {"b1", "b2"}

BusinessTable ==
  [b \in Businesses |->
     [openTime |-> <<8, 0>>, closeTime |-> <<9, 0>>,
      workingDays |-> {1, 2, 3, 4, 5}, slotDuration |-> 30]]

Services == {"s1", "s2", "s3"}

ServiceTable ==
  [s \in Services |->
     CASE s = "s1" -> [businessId |-> "b1", duration |-> 30, price |-> 3, isActive |-> TRUE]
       [] s = "s2" -> [businessId |-> "b1", duration |-> 60, price |-> 3, isActive |-> TRUE]
       [] s = "s3" -> [businessId |-> "b2", duration |-> 30, price |-> 2, isActive |-> TRUE]]

Customers == {"c1", "c2"}

CustomerTable == [c \in Customers |-> IF c = "c1" THEN "b1" ELSE "b2"]

Dates == {0, 1}

Times == {<<8, 0>>, <<8, 30>>}

\* start times around the opening hours, one of them before opening
BookingTimes == {<<7, 30>>, <<8, 0>>, <<8, 30>>}

AppointmentStatus == {"PENDING", "CONFIRMED", "COMPLETED", "CANCELLED", "NO_SHOW"}

InvoiceStatus == {"DRAFT", "PENDING", "PARTIAL", "PAID", "CANCELLED", "OVERDUE"}

\* invoice item lists a request may carry: <<quantity, unitPrice>> per item
ItemLists == {<< <<1, 1>>, <<1, 2>> >>}

Discounts == {0, 4}

Amounts == {1, 2, 3}

DueDates == {-1, 0}

NoId == 0
NoAmount == -1
NoDate == -1
NoTime == <<>>
NoRef == "none"
NoDuration == 0

\* service ids a slots query may carry: known ones, none, and one that does not exist
SlotServices == Services \cup {NoRef, "s0"}

\* explicit durations of a slots query, in minutes
SlotDurations == {NoDuration, 45}

\* wall-clock times of day at which a slots query arrives
ClockTimes == {<<7, 0>>, <<8, 15>>, <<23, 0>>}

\* ----------------------------------------------------------- DateUtils
timeToMinutes(time) == time[1] * 60 + time[2]

minutesToTime(minutes) == <<minutes \div 60, minutes % 60>>

addMinutesToTime(time, minutesToAdd) == minutesToTime(timeToMinutes(time) + minutesToAdd)

doTimesOverlap(start1, end1, start2, end2) ==
  /\ timeToMinutes(start1) < timeToMinutes(end2)
  /\ timeToMinutes(start2) < timeToMinutes(end1)

timeRangesOverlap(start1, end1, start2, end2) == doTimesOverlap(start1, end1, start2, end2)

RECURSIVE slotsFromThroughClose(_, _, _)
slotsFromThroughClose(currentMinutes, closeMinutes, slotDuration) ==
  IF currentMinutes <= closeMinutes
    THEN <<minutesToTime(currentMinutes)>>
           \o slotsFromThroughClose(currentMinutes + slotDuration, closeMinutes, slotDuration)
    ELSE <<>>

RECURSIVE slotsFrom(_, _, _)
\* the loop of generateTimeSlots from currentMinutes on
slotsFrom(currentMinutes, closeMinutes, slotDuration) ==
  IF currentMinutes < closeMinutes
    THEN <<minutesToTime(currentMinutes)>>
           \o slotsFrom(currentMinutes + slotDuration, closeMinutes, slotDuration)
    ELSE <<>>

generateTimeSlots(openTime, closeTime, slotDuration) ==
  slotsFrom(timeToMinutes(openTime), timeToMinutes(closeTime), slotDuration)

\* JavaScript's < on two zero-padded "HH:mm" strings
StrLess(t1, t2) == t1[1] < t2[1] \/ (t1[1] = t2[1] /\ t1[2] < t2[2])

getDayOfWeek(date) == date % 7

\* ------------------------------------------------------------------ state
VARIABLES appts, nextApptId, invoices, payments, nextInvId, nextPayId, now, lastOp, pc, req,
          customerRows, vehicles, nextCustomerId, nextVehicleId, businessRows

apptVars == <<appts, nextApptId>>

\* the requests in flight: each worker's position in its handler and the values it holds
procVars == <<pc, req>>

billVars == <<invoices, payments, nextInvId, nextPayId>>

\* the customers module's tables: customer rows, vehicle rows and their id counters
custVars == <<customerRows, vehicles, nextCustomerId, nextVehicleId>>

\* the business module's table: the opening hours each user's business has on record
bizVars == <<businessRows>>

vars == <<appts, nextApptId, invoices, payments, nextInvId, nextPayId, now, lastOp, pc, req,
          customerRows, vehicles, nextCustomerId, nextVehicleId, businessRows>>

Procs == {"p1", "p2"}

NoReq == [kind |-> "none"]

Op(op, id, result) == [op |-> op, result |-> result]

\* prisma.service.findFirst({ id, businessId, isActive: true })
findService(serviceId, businessId) ==
  /\ serviceId \in Services
  /\ ServiceTable[serviceId].businessId = businessId
  /\ ServiceTable[serviceId].isActive

\* prisma.customer.findFirst({ id, businessId })
findCustomer(customerId, businessId) ==
  customerId \in Customers /\ CustomerTable[customerId] = businessId

checkTimeConflict(A, businessId, date, startTime, endTime, excludeAppointmentId) ==
  \E apt \in A :
    /\ apt.businessId = businessId
    /\ apt.date = date
    /\ apt.status # "CANCELLED"
    /\ (excludeAppointmentId # NoId => apt.id # excludeAppointmentId)
    /\ timeRangesOverlap(startTime, endTime, apt.startTime, apt.endTime)

\* unique index appointments(business_id, date, start_time); self is the row written
violatesSlotKey(A, businessId, date, startTime, self) ==
  \E apt \in A :
    /\ apt.id # self
    /\ apt.businessId = businessId
    /\ apt.date = date
    /\ apt.startTime = startTime

getByIdAnyBusiness(A, appointmentId, businessId) == {apt \in A : apt.id = appointmentId}

getById(A, appointmentId, businessId) ==
  {apt \in A : apt.id = appointmentId /\ apt.businessId = businessId}

\* ------------------------------------------------------ AppointmentsService
createChecksNoHours(A, businessId, customerId, serviceId, date, startTime) ==
  IF ~findService(serviceId, businessId) THEN "NotFound"
  ELSE IF ~findCustomer(customerId, businessId) THEN "NotFound"
  ELSE LET endTime == addMinutesToTime(startTime, ServiceTable[serviceId].duration)
           business == BusinessTable[businessId]
       IN IF getDayOfWeek(date) \notin business.workingDays THEN "BadRequest"
          ELSE IF checkTimeConflict(A, businessId, date, startTime, endTime, NoId)
                 THEN "Conflict"
          ELSE "ok"

\* the checks of create before the insert: the error thrown, or "ok"
createChecks(A, businessId, customerId, serviceId, date, startTime) ==
  IF ~findService(serviceId, businessId) THEN "NotFound"
  ELSE IF ~findCustomer(customerId, businessId) THEN "NotFound"
  ELSE LET endTime == addMinutesToTime(startTime, ServiceTable[serviceId].duration)
           business == BusinessTable[businessId]
       IN IF getDayOfWeek(date) \notin business.workingDays THEN "BadRequest"
          ELSE IF StrLess(startTime, business.openTime) \/ StrLess(business.closeTime, endTime)
                 THEN "BadRequest"
          ELSE IF checkTimeConflict(A, businessId, date, startTime, endTime, NoId)
                 THEN "Conflict"
          ELSE "ok"

newAppointment(id, businessId, customerId, serviceId, date, startTime) ==
  [id |-> id, businessId |-> businessId, customerId |-> customerId,
   serviceId |-> serviceId, date |-> date, startTime |-> startTime,
   endTime |-> addMinutesToTime(startTime, ServiceTable[serviceId].duration),
   status |-> "PENDING"]

insertResultNoIndex(A, businessId, date, startTime) == "ok"

\* prisma.appointment.create under the unique index: the error, or "ok"
insertResult(A, businessId, date, startTime) ==
  IF violatesSlotKey(A, businessId, date, startTime, NoId) THEN "P2002" ELSE "ok"

Create(businessId, customerId, serviceId, date, startTime) ==
  LET checked == createChecks(appts, businessId, customerId, serviceId, date, startTime)
      result == IF checked # "ok" THEN checked
                ELSE insertResult(appts, businessId, date, startTime)
  IN /\ nextApptId <= MaxAppts
     /\ IF result = "ok"
          THEN /\ appts' = appts \cup
                     {newAppointment(nextApptId, businessId, customerId, serviceId, date, startTime)}
               /\ nextApptId' = nextApptId + 1
               /\ lastOp' = Op("create", nextApptId, "ok")
          ELSE /\ UNCHANGED apptVars
               /\ lastOp' = Op("create", NoId, result)

updateOutcomeNoTerminalCheck(A, appointmentId, businessId, customerId, serviceId, date, startTime) ==
  LET found == getById(A, appointmentId, businessId) IN
  IF found = {} THEN [result |-> "NotFound"]
  ELSE
  LET existingAppointment == CHOOSE apt \in found : TRUE
      recompute == serviceId # NoRef \/ startTime # NoTime
      newServiceId == IF serviceId # NoRef THEN serviceId ELSE existingAppointment.serviceId
      newStartTime == IF startTime # NoTime THEN startTime ELSE existingAppointment.startTime
      newDate == IF date # NoDate THEN date ELSE existingAppointment.date
      endTime == IF recompute /\ newServiceId \in Services
                   THEN addMinutesToTime(newStartTime, ServiceTable[newServiceId].duration)
                   ELSE existingAppointment.endTime
      row == [existingAppointment EXCEPT
                !.customerId = IF customerId # NoRef THEN customerId ELSE @,
                !.serviceId = newServiceId,
                !.date = newDate,
                !.startTime = newStartTime,
                !.endTime = endTime]
  IN IF recompute /\ ~findService(newServiceId, businessId) THEN [result |-> "NotFound"]
     ELSE IF /\ (date # NoDate \/ startTime # NoTime)
             /\ checkTimeConflict(A, businessId, newDate, newStartTime, endTime, appointmentId)
            THEN [result |-> "Conflict"]
     ELSE IF customerId # NoRef /\ ~findCustomer(customerId, businessId)
            THEN [result |-> "NotFound"]
     ELSE IF violatesSlotKey(A, businessId, newDate, newStartTime, appointmentId)
            THEN [result |-> "P2002"]
     ELSE [result |-> "ok", row |-> row, old |-> existingAppointment]

\* the row update would write, or the error it throws before writing
updateOutcome(A, appointmentId, businessId, customerId, serviceId, date, startTime) ==
  LET found == getById(A, appointmentId, businessId) IN
  IF found = {} THEN [result |-> "NotFound"]
  ELSE
  LET existingAppointment == CHOOSE apt \in found : TRUE
      recompute == serviceId # NoRef \/ startTime # NoTime
      newServiceId == IF serviceId # NoRef THEN serviceId ELSE existingAppointment.serviceId
      newStartTime == IF startTime # NoTime THEN startTime ELSE existingAppointment.startTime
      newDate == IF date # NoDate THEN date ELSE existingAppointment.date
      endTime == IF recompute /\ newServiceId \in Services
                   THEN addMinutesToTime(newStartTime, ServiceTable[newServiceId].duration)
                   ELSE existingAppointment.endTime
      row == [existingAppointment EXCEPT
                !.customerId = IF customerId # NoRef THEN customerId ELSE @,
                !.serviceId = newServiceId,
                !.date = newDate,
                !.startTime = newStartTime,
                !.endTime = endTime]
  IN IF existingAppointment.status \in {"COMPLETED", "CANCELLED"} THEN [result |-> "BadRequest"]
     ELSE IF recompute /\ ~findService(newServiceId, businessId) THEN [result |-> "NotFound"]
     ELSE IF /\ (date # NoDate \/ startTime # NoTime)
             /\ checkTimeConflict(A, businessId, newDate, newStartTime, endTime, appointmentId)
            THEN [result |-> "Conflict"]
     ELSE IF customerId # NoRef /\ ~findCustomer(customerId, businessId)
            THEN [result |-> "NotFound"]
     ELSE IF violatesSlotKey(A, businessId, newDate, newStartTime, appointmentId)
            THEN [result |-> "P2002"]
     ELSE [result |-> "ok", row |-> row, old |-> existingAppointment]

Update(appointmentId, businessId, customerId, serviceId, date, startTime) ==
  LET out == updateOutcome(appts, appointmentId, businessId, customerId, serviceId, date, startTime)
  IN /\ appts' = IF out.result = "ok" THEN (appts \ {out.old}) \cup {out.row} ELSE appts
     /\ UNCHANGED nextApptId
     /\ lastOp' = Op("update", appointmentId, out.result)

statusChecksNoCompletedGuard(current, status) ==
  IF current = "CANCELLED" THEN "BadRequest" ELSE "ok"

\* the transition validation of updateStatus: the error thrown, or "ok"
statusChecks(current, status) ==
  IF current = "CANCELLED" THEN "BadRequest"
  ELSE IF current = "COMPLETED" /\ status # "COMPLETED" THEN "BadRequest"
  ELSE "ok"

UpdateStatus(appointmentId, businessId, status) ==
  LET found == getById(appts, appointmentId, businessId) IN
  /\ UNCHANGED nextApptId
  /\ IF found = {}
       THEN /\ UNCHANGED appts
            /\ lastOp' = Op("updateStatus", appointmentId, "NotFound")
       ELSE LET existingAppointment == CHOOSE apt \in found : TRUE
                result == statusChecks(existingAppointment.status, status)
            IN /\ appts' = IF result = "ok"
                             THEN (appts \ {existingAppointment}) \cup
                                    {[existingAppointment EXCEPT !.status = status]}
                             ELSE appts
               /\ lastOp' = Op("updateStatus", appointmentId, result)

Delete(appointmentId, businessId) ==
  LET found == getById(appts, appointmentId, businessId) IN
  /\ UNCHANGED nextApptId
  /\ appts' = appts \ found
  /\ lastOp' = Op("delete", appointmentId, IF found = {} THEN "NotFound" ELSE "ok")

\* getById as a request: it answers and writes nothing
GetAppointment(appointmentId, businessId) ==
  /\ lastOp' = Op("getAppointment", appointmentId,
                  IF getById(appts, appointmentId, businessId) = {} THEN "NotFound" ELSE "ok")
  /\ UNCHANGED apptVars

\* invoices.appointment_id is ON DELETE SET NULL: the invoice table after rows are deleted
onDeleteSetNull(I, deleted) ==
  {IF \E apt \in deleted : apt.id = inv.appointmentId
     THEN [inv EXCEPT !.appointmentId = NoId]
     ELSE inv : inv \in I}

\* the duration getAvailableSlots works with
slotQueryDuration(businessId, serviceId, customDuration) ==
  IF serviceId # NoRef
    THEN IF findService(serviceId, businessId) THEN ServiceTable[serviceId].duration
         ELSE BusinessTable[businessId].slotDuration
  ELSE IF customDuration # NoDuration THEN customDuration
  ELSE BusinessTable[businessId].slotDuration

\* the slots marked against every appointment of the date, cancelled ones included
getAvailableSlotsCountingCancelled(A, businessId, date, serviceId, customDuration, today, clock) ==
  LET business == BusinessTable[businessId]
      duration == slotQueryDuration(businessId, serviceId, customDuration)
      allSlots == generateTimeSlots(business.openTime, business.closeTime, duration)
      existingAppointments == {apt \in A : apt.businessId = businessId /\ apt.date = date}
  IN IF getDayOfWeek(date) \notin business.workingDays THEN <<>>
     ELSE [i \in 1..Len(allSlots) |->
             LET time == allSlots[i]
                 slotEnd == addMinutesToTime(time, duration)
                 hasConflict == \E apt \in existingAppointments :
                                  timeRangesOverlap(time, slotEnd, apt.startTime, apt.endTime)
                 isPast == date = today /\ StrLess(time, clock)
             IN [time |-> time, available |-> ~hasConflict /\ ~isPast]]

\* today and clock are formatDate(new Date()) and formatTime(new Date())
getAvailableSlots(A, businessId, date, serviceId, customDuration, today, clock) ==
  LET business == BusinessTable[businessId]
      duration == slotQueryDuration(businessId, serviceId, customDuration)
      allSlots == generateTimeSlots(business.openTime, business.closeTime, duration)
      existingAppointments ==
        {apt \in A : apt.businessId = businessId /\ apt.date = date /\ apt.status # "CANCELLED"}
  IN IF getDayOfWeek(date) \notin business.workingDays THEN <<>>
     ELSE [i \in 1..Len(allSlots) |->
             LET time == allSlots[i]
                 slotEnd == addMinutesToTime(time, duration)
                 hasConflict == \E apt \in existingAppointments :
                                  timeRangesOverlap(time, slotEnd, apt.startTime, apt.endTime)
                 isPast == date = today /\ StrLess(time, clock)
             IN [time |-> time, available |-> ~hasConflict /\ ~isPast]]

\* the query as a request: the answer is kept with the clock time it was computed at
GetAvailableSlots(businessId, date, serviceId, customDuration, clock) ==
  /\ lastOp' = [op |-> "getAvailableSlots", result |-> "ok", clock |-> clock,
                slots |-> getAvailableSlots(appts, businessId, date, serviceId,
                                            customDuration, now, clock)]
  /\ UNCHANGED apptVars

\* create as the two storage round trips it is: the checks (reads), then the insert.
\* raced records that the check ran while another create stood between its own check
\* and its insert (history only; no step reads it).
CreateCheck(p, businessId, customerId, serviceId, date, startTime) ==
  LET checked == createChecks(appts, businessId, customerId, serviceId, date, startTime)
      rivals == {q \in Procs \ {p} : pc[q] = "insert" /\ checked = "ok"}
      mine == [kind |-> "create", businessId |-> businessId, customerId |-> customerId,
               serviceId |-> serviceId, date |-> date, startTime |-> startTime,
               endTime |-> addMinutesToTime(startTime,
                             IF serviceId \in Services THEN ServiceTable[serviceId].duration ELSE 0),
               result |-> checked, raced |-> rivals # {}]
  IN
  /\ pc[p] = "idle"
  /\ nextApptId <= MaxAppts
  /\ req' = [q \in Procs |->
               IF q = p THEN mine
               ELSE IF q \in rivals THEN [req[q] EXCEPT !.raced = TRUE]
               ELSE req[q]]
  /\ pc' = [pc EXCEPT ![p] = IF checked = "ok" THEN "insert" ELSE "done"]
  /\ UNCHANGED <<apptVars, billVars, now, custVars, bizVars, lastOp>>

CreateInsert(p) ==
  LET r == req[p]
      result == insertResult(appts, r.businessId, r.date, r.startTime) IN
  /\ pc[p] = "insert"
  /\ IF result = "ok"
       THEN /\ appts' = appts \cup
                  {newAppointment(nextApptId, r.businessId, r.customerId, r.serviceId,
                                  r.date, r.startTime)}
            /\ nextApptId' = nextApptId + 1
       ELSE UNCHANGED apptVars
  /\ req' = [req EXCEPT ![p].result = result]
  /\ pc' = [pc EXCEPT ![p] = "done"]
  /\ lastOp' = Op("create", NoId, result)
  /\ UNCHANGED <<billVars, now, custVars, bizVars>>

\* the response is sent; the worker takes the next request
Return(p) ==
  /\ pc[p] = "done"
  /\ pc' = [pc EXCEPT ![p] = "idle"]
  /\ req' = [req EXCEPT ![p] = NoReq]
  /\ UNCHANGED <<apptVars, billVars, now, custVars, bizVars, lastOp>>

\* ------------------------------------------------------------ BillingService
RECURSIVE toDigits(_)
\* Number.prototype.toString: the decimal digits of n >= 0
toDigits(n) == IF n < 10 THEN <<n>> ELSE Append(toDigits(n \div 10), n % 10)

RECURSIVE padStart(_, _)
\* String.prototype.padStart(width, '0')
padStart(digits, width) ==
  IF Len(digits) >= width THEN digits ELSE padStart(<<0>> \o digits, width)

RECURSIVE parseInt(_)
\* parseInt(digits, 10) of the numeric suffix
parseInt(digits) ==
  IF digits = <<>> THEN 0
  ELSE 10 * parseInt(SubSeq(digits, 1, Len(digits) - 1)) + digits[Len(digits)]

\* the number allocated from the last invoice of any business
getNextInvoiceNumberAnyBusiness(I, businessId) ==
  IF I = {} THEN <<0, 0, 0, 1>>
  ELSE LET lastInvoice == CHOOSE inv \in I : \A other \in I : other.id <= inv.id
       IN padStart(toDigits(parseInt(lastInvoice.number) + 1), 4)

\* the stored number is "NF-" followed by these digits
getNextInvoiceNumber(I, businessId) ==
  LET mine == {inv \in I : inv.businessId = businessId} IN
  IF mine = {} THEN <<0, 0, 0, 1>>
  ELSE LET lastInvoice == CHOOSE inv \in mine : \A other \in mine : other.id <= inv.id
       IN padStart(toDigits(parseInt(lastInvoice.number) + 1), 4)

RECURSIVE sumItemsIgnoringQuantity(_)
sumItemsIgnoringQuantity(items) ==
  IF items = <<>> THEN 0
  ELSE items[1][2] + sumItemsIgnoringQuantity(Tail(items))

RECURSIVE sumItems(_)
sumItems(items) ==
  IF items = <<>> THEN 0
  ELSE items[1][1] * items[1][2] + sumItems(Tail(items))

RECURSIVE sumAmounts(_)
sumAmounts(P) ==
  IF P = {} THEN 0
  ELSE LET pay == CHOOSE x \in P : TRUE IN pay.amount + sumAmounts(P \ {pay})

paymentsOf(P, invoiceId) == {pay \in P : pay.invoiceId = invoiceId}

findInvoice(I, invoiceId, businessId) ==
  {inv \in I : inv.id = invoiceId /\ inv.businessId = businessId}

\* the recomputation with PAID only for a sum strictly above the total
recomputedPaidAboveTotal(inv, paid, clock) ==
  LET totalPaid == sumAmounts(paid)
      newStatus == IF totalPaid > inv.total THEN "PAID"
                   ELSE IF totalPaid > 0 THEN "PARTIAL"
                   ELSE inv.status
  IN [paidAmount |-> totalPaid, status |-> newStatus,
      paidAt |-> IF newStatus = "PAID" THEN clock ELSE NoDate]

\* the status, paidAmount and paidAt updateInvoiceStatus computes from what it read
recomputed(inv, paid, clock) ==
  LET totalPaid == sumAmounts(paid)
      newStatus == IF totalPaid >= inv.total THEN "PAID"
                   ELSE IF totalPaid > 0 THEN "PARTIAL"
                   ELSE IF inv.dueDate # NoDate /\ inv.dueDate < clock /\ inv.status = "PENDING"
                          THEN "OVERDUE"
                   ELSE inv.status
  IN [paidAmount |-> totalPaid, status |-> newStatus,
      paidAt |-> IF newStatus = "PAID" THEN clock ELSE NoDate]

\* updateInvoiceStatus on the tables I, P: the invoice table after its write
updateInvoiceStatus(I, P, invoiceId, clock) ==
  {IF inv.id = invoiceId
     THEN LET r == recomputed(inv, paymentsOf(P, invoiceId), clock)
          IN [inv EXCEPT !.paidAmount = r.paidAmount, !.status = r.status, !.paidAt = r.paidAt]
     ELSE inv : inv \in I}

invoiceInsertResultNoNumberKey(I, businessId, number, appointmentId) ==
  IF appointmentId # NoId /\ (\E inv \in I : inv.appointmentId = appointmentId) THEN "P2002"
  ELSE IF appointmentId # NoId /\ ~(\E apt \in appts : apt.id = appointmentId) THEN "P2003"
  ELSE "ok"

invoiceInsertResultNoAppointmentKey(I, businessId, number, appointmentId) ==
  IF \E inv \in I : inv.businessId = businessId /\ inv.number = number THEN "P2002"
  ELSE IF appointmentId # NoId /\ ~(\E apt \in appts : apt.id = appointmentId) THEN "P2003"
  ELSE "ok"

\* (business_id, number) and appointment_id are unique; appointment_id references appointments(id)
invoiceInsertResult(I, businessId, number, appointmentId) ==
  IF \E inv \in I : inv.businessId = businessId /\ inv.number = number THEN "P2002"
  ELSE IF appointmentId # NoId /\ (\E inv \in I : inv.appointmentId = appointmentId) THEN "P2002"
  ELSE IF appointmentId # NoId /\ ~(\E apt \in appts : apt.id = appointmentId) THEN "P2003"
  ELSE "ok"

CreateInvoice(businessId, customerId, items, discount, dueDate, autoIssue, appointmentId) ==
  LET number == getNextInvoiceNumber(invoices, businessId)
      subtotal == sumItems(items)
      total == subtotal - discount
      result ==
        IF ~findCustomer(customerId, businessId) THEN "NotFound"
        ELSE IF appointmentId # NoId /\ (\E inv \in invoices : inv.appointmentId = appointmentId)
               THEN "BadRequest"
        ELSE invoiceInsertResult(invoices, businessId, number, appointmentId)
  IN /\ invoices' =
          IF result = "ok"
            THEN invoices \cup
                   {[id |-> nextInvId, businessId |-> businessId, customerId |-> customerId,
                     appointmentId |-> appointmentId, number |-> number,
                     status |-> IF autoIssue THEN "PENDING" ELSE "DRAFT",
                     issuedAt |-> IF autoIssue THEN now ELSE NoDate,
                     dueDate |-> dueDate, paidAt |-> NoDate,
                     subtotal |-> subtotal, discount |-> discount, total |-> total,
                     paidAmount |-> 0, items |-> items]}
            ELSE invoices
     /\ nextInvId' = IF result = "ok" THEN nextInvId + 1 ELSE nextInvId
     /\ UNCHANGED <<payments, nextPayId>>
     /\ lastOp' = Op("createInvoice", NoId, result)

\* the row prisma.invoice.create writes
newInvoice(id, businessId, customerId, appointmentId, number, items, discount, dueDate, autoIssue, clock) ==
  [id |-> id, businessId |-> businessId, customerId |-> customerId,
   appointmentId |-> appointmentId, number |-> number,
   status |-> IF autoIssue THEN "PENDING" ELSE "DRAFT",
   issuedAt |-> IF autoIssue THEN clock ELSE NoDate,
   dueDate |-> dueDate, paidAt |-> NoDate,
   subtotal |-> sumItems(items), discount |-> discount, total |-> sumItems(items) - discount,
   paidAmount |-> 0, items |-> items]

\* the reads of createFromAppointment before it allocates a number: the error, or "ok"
fromAppointmentChecks(A, I, businessId, appointmentId) ==
  IF getById(A, appointmentId, businessId) = {} THEN "NotFound"
  ELSE IF \E inv \in I : inv.appointmentId = appointmentId THEN "BadRequest"
  ELSE "ok"

\* the single item of an invoice made from an appointment: quantity 1 at the service price
appointmentItems(A, appointmentId) ==
  LET appointment == CHOOSE apt \in A : apt.id = appointmentId
  IN << <<1, ServiceTable[appointment.serviceId].price>> >>

CreateFromAppointment(businessId, appointmentId, discount, dueDate, autoIssue) ==
  LET checked == fromAppointmentChecks(appts, invoices, businessId, appointmentId)
      number == getNextInvoiceNumber(invoices, businessId)
      result == IF checked # "ok" THEN checked
                ELSE invoiceInsertResult(invoices, businessId, number, appointmentId)
      appointment == CHOOSE apt \in appts : apt.id = appointmentId
  IN /\ invoices' =
          IF result = "ok"
            THEN invoices \cup
                   {newInvoice(nextInvId, businessId, appointment.customerId, appointmentId,
                               number, appointmentItems(appts, appointmentId), discount,
                               dueDate, autoIssue, now)}
            ELSE invoices
     /\ nextInvId' = IF result = "ok" THEN nextInvId + 1 ELSE nextInvId
     /\ UNCHANGED <<payments, nextPayId>>
     /\ lastOp' = Op("createFromAppointment", NoId, result)

GetInvoice(businessId, invoiceId) ==
  /\ lastOp' = Op("getInvoice", invoiceId,
                  IF findInvoice(invoices, invoiceId, businessId) = {} THEN "NotFound" ELSE "ok")
  /\ UNCHANGED billVars

UpdateInvoiceAnyStatus(businessId, invoiceId, discount, dueDate) ==
  LET found == findInvoice(invoices, invoiceId, businessId) IN
  /\ UNCHANGED <<payments, nextInvId, nextPayId>>
  /\ IF found = {}
       THEN /\ UNCHANGED invoices
            /\ lastOp' = Op("updateInvoice", invoiceId, "NotFound")
       ELSE LET invoice == CHOOSE inv \in found : TRUE
                total == invoice.subtotal - (IF discount # NoAmount THEN discount ELSE invoice.discount)
            IN IF invoice.status = "CANCELLED"
                 THEN /\ UNCHANGED invoices
                      /\ lastOp' = Op("updateInvoice", invoiceId, "BadRequest")
                 ELSE /\ invoices' = (invoices \ {invoice}) \cup
                            {[invoice EXCEPT
                                !.discount = IF discount # NoAmount THEN discount ELSE @,
                                !.total = IF discount # NoAmount THEN total ELSE @,
                                !.dueDate = IF dueDate # NoDate THEN dueDate ELSE @]}
                      /\ lastOp' = Op("updateInvoice", invoiceId, "ok")

UpdateInvoice(businessId, invoiceId, discount, dueDate) ==
  LET found == findInvoice(invoices, invoiceId, businessId) IN
  /\ UNCHANGED <<payments, nextInvId, nextPayId>>
  /\ IF found = {}
       THEN /\ UNCHANGED invoices
            /\ lastOp' = Op("updateInvoice", invoiceId, "NotFound")
       ELSE LET invoice == CHOOSE inv \in found : TRUE
                total == invoice.subtotal - (IF discount # NoAmount THEN discount ELSE invoice.discount)
            IN IF invoice.status # "DRAFT"
                 THEN /\ UNCHANGED invoices
                      /\ lastOp' = Op("updateInvoice", invoiceId, "BadRequest")
                 ELSE /\ invoices' = (invoices \ {invoice}) \cup
                            {[invoice EXCEPT
                                !.discount = IF discount # NoAmount THEN discount ELSE @,
                                !.total = IF discount # NoAmount THEN total ELSE @,
                                !.dueDate = IF dueDate # NoDate THEN dueDate ELSE @]}
                      /\ lastOp' = Op("updateInvoice", invoiceId, "ok")

IssueAnyStatus(businessId, invoiceId, dueDate) ==
  LET found == findInvoice(invoices, invoiceId, businessId) IN
  /\ UNCHANGED <<payments, nextInvId, nextPayId>>
  /\ IF found = {}
       THEN /\ UNCHANGED invoices
            /\ lastOp' = Op("issue", invoiceId, "NotFound")
       ELSE LET invoice == CHOOSE inv \in found : TRUE
            IN IF invoice.status = "CANCELLED"
                 THEN /\ UNCHANGED invoices
                      /\ lastOp' = Op("issue", invoiceId, "BadRequest")
                 ELSE /\ invoices' = (invoices \ {invoice}) \cup
                            {[invoice EXCEPT
                                !.status = "PENDING", !.issuedAt = now,
                                !.dueDate = IF dueDate # NoDate THEN dueDate ELSE @]}
                      /\ lastOp' = Op("issue", invoiceId, "ok")

Issue(businessId, invoiceId, dueDate) ==
  LET found == findInvoice(invoices, invoiceId, businessId) IN
  /\ UNCHANGED <<payments, nextInvId, nextPayId>>
  /\ IF found = {}
       THEN /\ UNCHANGED invoices
            /\ lastOp' = Op("issue", invoiceId, "NotFound")
       ELSE LET invoice == CHOOSE inv \in found : TRUE
            IN IF invoice.status # "DRAFT"
                 THEN /\ UNCHANGED invoices
                      /\ lastOp' = Op("issue", invoiceId, "BadRequest")
                 ELSE /\ invoices' = (invoices \ {invoice}) \cup
                            {[invoice EXCEPT
                                !.status = "PENDING", !.issuedAt = now,
                                !.dueDate = IF dueDate # NoDate THEN dueDate ELSE @]}
                      /\ lastOp' = Op("issue", invoiceId, "ok")

CancelEvenPaid(businessId, invoiceId) ==
  LET found == findInvoice(invoices, invoiceId, businessId) IN
  /\ UNCHANGED <<payments, nextInvId, nextPayId>>
  /\ IF found = {}
       THEN /\ UNCHANGED invoices
            /\ lastOp' = Op("cancel", invoiceId, "NotFound")
       ELSE LET invoice == CHOOSE inv \in found : TRUE
            IN IF invoice.status = "CANCELLED"
                 THEN /\ UNCHANGED invoices
                      /\ lastOp' = Op("cancel", invoiceId, "BadRequest")
                 ELSE /\ invoices' = (invoices \ {invoice}) \cup
                            {[invoice EXCEPT !.status = "CANCELLED"]}
                      /\ lastOp' = Op("cancel", invoiceId, "ok")

Cancel(businessId, invoiceId) ==
  LET found == findInvoice(invoices, invoiceId, businessId) IN
  /\ UNCHANGED <<payments, nextInvId, nextPayId>>
  /\ IF found = {}
       THEN /\ UNCHANGED invoices
            /\ lastOp' = Op("cancel", invoiceId, "NotFound")
       ELSE LET invoice == CHOOSE inv \in found : TRUE
            IN IF invoice.status \in {"PAID", "CANCELLED"}
                 THEN /\ UNCHANGED invoices
                      /\ lastOp' = Op("cancel", invoiceId, "BadRequest")
                 ELSE /\ invoices' = (invoices \ {invoice}) \cup
                            {[invoice EXCEPT !.status = "CANCELLED"]}
                      /\ lastOp' = Op("cancel", invoiceId, "ok")

addPaymentChecksNoRemaining(invoice, amount) ==
  IF invoice.status \in {"CANCELLED", "DRAFT", "PAID"} THEN "BadRequest" ELSE "ok"

addPaymentChecksDraftAllowed(invoice, amount) ==
  IF invoice.status \in {"CANCELLED", "PAID"} THEN "BadRequest"
  ELSE IF amount > invoice.total - invoice.paidAmount THEN "BadRequest"
  ELSE "ok"

\* the checks of addPayment on the invoice row it read: the error thrown, or "ok"
addPaymentChecks(invoice, amount) ==
  IF invoice.status \in {"CANCELLED", "DRAFT", "PAID"} THEN "BadRequest"
  ELSE IF amount > invoice.total - invoice.paidAmount THEN "BadRequest"
  ELSE "ok"

AddPayment(businessId, invoiceId, amount) ==
  LET found == findInvoice(invoices, invoiceId, businessId) IN
  /\ nextPayId <= MaxPayments
  /\ UNCHANGED nextInvId
  /\ IF found = {}
       THEN /\ UNCHANGED <<invoices, payments, nextPayId>>
            /\ lastOp' = Op("addPayment", invoiceId, "NotFound")
       ELSE LET invoice == CHOOSE inv \in found : TRUE
                result == addPaymentChecks(invoice, amount)
                added == payments \cup
                           {[id |-> nextPayId, invoiceId |-> invoiceId, amount |-> amount]}
            IN IF result # "ok"
                 THEN /\ UNCHANGED <<invoices, payments, nextPayId>>
                      /\ lastOp' = Op("addPayment", invoiceId, result)
                 ELSE /\ payments' = added
                      /\ nextPayId' = nextPayId + 1
                      /\ invoices' = updateInvoiceStatus(invoices, added, invoiceId, now)
                      /\ lastOp' = Op("addPayment", invoiceId, "ok")

RemovePayment(businessId, invoiceId, paymentId) ==
  LET found == findInvoice(invoices, invoiceId, businessId)
      payment == {pay \in paymentsOf(payments, invoiceId) : pay.id = paymentId}
  IN
  /\ UNCHANGED <<nextInvId, nextPayId>>
  /\ IF found = {} \/ payment = {}
       THEN /\ UNCHANGED <<invoices, payments>>
            /\ lastOp' = Op("removePayment", invoiceId, "NotFound")
       ELSE /\ payments' = payments \ payment
            /\ invoices' = updateInvoiceStatus(invoices, payments \ payment, invoiceId, now)
            /\ lastOp' = Op("removePayment", invoiceId, "ok")

\* addPayment and removePayment as the storage round trips they are: read the
\* invoice and check, write the payment row, then updateInvoiceStatus's read of the
\* invoice with its payments and its write of paidAmount, status and paidAt.
AddPaymentRead(p, businessId, invoiceId, amount) ==
  LET found == findInvoice(invoices, invoiceId, businessId)
      result == IF found = {} THEN "NotFound"
                ELSE addPaymentChecks(CHOOSE inv \in found : TRUE, amount)
      inserting == {q \in Procs : pc[q] = "pay_insert"}
  IN
  /\ pc[p] = "idle"
  /\ nextPayId + Cardinality(inserting) <= MaxPayments
  /\ req' = [req EXCEPT ![p] = [kind |-> "addPayment", invoiceId |-> invoiceId,
                                amount |-> amount, result |-> result]]
  /\ pc' = [pc EXCEPT ![p] = IF result = "ok" THEN "pay_insert" ELSE "done"]
  /\ UNCHANGED <<apptVars, billVars, now, custVars, bizVars, lastOp>>

AddPaymentInsert(p) ==
  /\ pc[p] = "pay_insert"
  /\ payments' = payments \cup
       {[id |-> nextPayId, invoiceId |-> req[p].invoiceId, amount |-> req[p].amount]}
  /\ nextPayId' = nextPayId + 1
  /\ pc' = [pc EXCEPT ![p] = "status_read"]
  /\ UNCHANGED <<apptVars, invoices, nextInvId, now, custVars, bizVars, lastOp, req>>

RemovePaymentRead(p, businessId, invoiceId, paymentId) ==
  LET found == findInvoice(invoices, invoiceId, businessId)
      payment == {pay \in paymentsOf(payments, invoiceId) : pay.id = paymentId}
      result == IF found = {} \/ payment = {} THEN "NotFound" ELSE "ok"
  IN
  /\ pc[p] = "idle"
  /\ req' = [req EXCEPT ![p] = [kind |-> "removePayment", invoiceId |-> invoiceId,
                                paymentId |-> paymentId, result |-> result]]
  /\ pc' = [pc EXCEPT ![p] = IF result = "ok" THEN "pay_delete" ELSE "done"]
  /\ UNCHANGED <<apptVars, billVars, now, custVars, bizVars, lastOp>>

\* prisma.payment.delete throws P2025 when the row is already gone
RemovePaymentDelete(p) ==
  LET payment == {pay \in payments : pay.id = req[p].paymentId} IN
  /\ pc[p] = "pay_delete"
  /\ payments' = payments \ payment
  /\ IF payment = {}
       THEN /\ req' = [req EXCEPT ![p].result = "P2025"]
            /\ pc' = [pc EXCEPT ![p] = "done"]
       ELSE /\ UNCHANGED req
            /\ pc' = [pc EXCEPT ![p] = "status_read"]
  /\ UNCHANGED <<apptVars, invoices, nextInvId, nextPayId, now, custVars, bizVars, lastOp>>

StatusRead(p) ==
  LET found == {inv \in invoices : inv.id = req[p].invoiceId}
      invoice == CHOOSE inv \in found : TRUE
      r == recomputed(invoice, paymentsOf(payments, invoice.id), now)
  IN
  /\ pc[p] = "status_read"
  /\ found # {}
  /\ req' = [req EXCEPT ![p] =
               [kind |-> @.kind, invoiceId |-> @.invoiceId, result |-> @.result,
                paidAmount |-> r.paidAmount, status |-> r.status, paidAt |-> r.paidAt]]
  /\ pc' = [pc EXCEPT ![p] = "status_write"]
  /\ UNCHANGED <<apptVars, billVars, now, custVars, bizVars, lastOp>>

StatusWrite(p) ==
  /\ pc[p] = "status_write"
  /\ invoices' =
       {IF inv.id = req[p].invoiceId
          THEN [inv EXCEPT !.paidAmount = req[p].paidAmount, !.status = req[p].status,
                           !.paidAt = req[p].paidAt]
          ELSE inv : inv \in invoices}
  /\ pc' = [pc EXCEPT ![p] = "done"]
  /\ lastOp' = Op(req[p].kind, NoId, "ok")
  /\ UNCHANGED <<apptVars, payments, nextInvId, nextPayId, now, custVars, bizVars, req>>

\* invoice creation as the storage round trips it is: the lookups (appointment or
\* customer, existing invoice of the appointment), the read of the last number, the insert.
FromAppointmentCheck(p, businessId, appointmentId, discount, dueDate, autoIssue) ==
  LET checked == fromAppointmentChecks(appts, invoices, businessId, appointmentId)
      creating == {q \in Procs : pc[q] \in {"inv_number", "inv_insert"}}
  IN
  /\ pc[p] = "idle"
  /\ nextInvId + Cardinality(creating) <= MaxInvoices
  /\ req' = [req EXCEPT ![p] =
               [kind |-> "createFromAppointment", businessId |-> businessId,
                customerId |-> IF checked = "NotFound" THEN NoRef
                               ELSE (CHOOSE apt \in appts : apt.id = appointmentId).customerId,
                appointmentId |-> appointmentId,
                items |-> IF checked = "NotFound" THEN <<>>
                          ELSE appointmentItems(appts, appointmentId),
                discount |-> discount, dueDate |-> dueDate, autoIssue |-> autoIssue,
                number |-> <<>>, result |-> checked]]
  /\ pc' = [pc EXCEPT ![p] = IF checked = "ok" THEN "inv_number" ELSE "done"]
  /\ UNCHANGED <<apptVars, billVars, now, custVars, bizVars, lastOp>>

InvoiceCreateCheck(p, businessId, customerId, items, discount, dueDate, autoIssue, appointmentId) ==
  LET checked ==
        IF ~findCustomer(customerId, businessId) THEN "NotFound"
        ELSE IF appointmentId # NoId /\ (\E inv \in invoices : inv.appointmentId = appointmentId)
               THEN "BadRequest"
        ELSE "ok"
      creating == {q \in Procs : pc[q] \in {"inv_number", "inv_insert"}}
  IN
  /\ pc[p] = "idle"
  /\ nextInvId + Cardinality(creating) <= MaxInvoices
  /\ req' = [req EXCEPT ![p] =
               [kind |-> "createInvoice", businessId |-> businessId, customerId |-> customerId,
                appointmentId |-> appointmentId, items |-> items,
                discount |-> discount, dueDate |-> dueDate, autoIssue |-> autoIssue,
                number |-> <<>>, result |-> checked]]
  /\ pc' = [pc EXCEPT ![p] = IF checked = "ok" THEN "inv_number" ELSE "done"]
  /\ UNCHANGED <<apptVars, billVars, now, custVars, bizVars, lastOp>>

InvoiceNumberRead(p) ==
  /\ pc[p] = "inv_number"
  /\ req' = [req EXCEPT ![p].number = getNextInvoiceNumber(invoices, req[p].businessId)]
  /\ pc' = [pc EXCEPT ![p] = "inv_insert"]
  /\ UNCHANGED <<apptVars, billVars, now, custVars, bizVars, lastOp>>

InvoiceInsert(p) ==
  LET r == req[p]
      result == invoiceInsertResult(invoices, r.businessId, r.number, r.appointmentId)
  IN
  /\ pc[p] = "inv_insert"
  /\ invoices' =
       IF result = "ok"
         THEN invoices \cup
                {newInvoice(nextInvId, r.businessId, r.customerId, r.appointmentId, r.number,
                            r.items, r.discount, r.dueDate, r.autoIssue, now)}
         ELSE invoices
  /\ nextInvId' = IF result = "ok" THEN nextInvId + 1 ELSE nextInvId
  /\ req' = [req EXCEPT ![p].result = result]
  /\ pc' = [pc EXCEPT ![p] = "done"]
  /\ lastOp' = Op(r.kind, NoId, result)
  /\ UNCHANGED <<apptVars, payments, nextPayId, now, custVars, bizVars>>

\* wall-clock time passes
Tick ==
  /\ now < MaxClock
  /\ now' = now + 1
  /\ UNCHANGED <<apptVars, billVars, lastOp, procVars, custVars, bizVars>>

ApptIds == 1..MaxAppts

InvoiceIds == 1..MaxInvoices

PaymentIds == 1..MaxPayments

Init ==
  /\ appts = {}
  /\ nextApptId = 1
  /\ invoices = {}
  /\ payments = {}
  /\ nextInvId = 1
  /\ nextPayId = 1
  /\ now = 0
  /\ lastOp = Op("init", NoId, "ok")
  /\ pc = [p \in Procs |-> "idle"]
  /\ req = [p \in Procs |-> NoReq]
  /\ customerRows = {}
  /\ vehicles = {}
  /\ nextCustomerId = 1
  /\ nextVehicleId = 1
  /\ businessRows = {}

DoCreate ==
  /\ \E b \in Businesses, c \in Customers, s \in Services, d \in Dates, t \in Times :
       Create(b, c, s, d, t)
  /\ UNCHANGED <<billVars, now, custVars, bizVars, procVars>>

\* update payloads: any mix of service, date and start time, or a customer change alone
UpdateData ==
  {x \in ({NoRef, "c2"}) \X (Services \cup {NoRef}) \X (Dates \cup {NoDate}) \X (Times \cup {NoTime}) :
     x[1] = NoRef \/ (x[2] = NoRef /\ x[3] = NoDate /\ x[4] = NoTime)}

DoUpdate ==
  /\ \E id \in ApptIds, b \in Businesses, x \in UpdateData :
       Update(id, b, x[1], x[2], x[3], x[4])
  /\ UNCHANGED <<billVars, now, custVars, bizVars, procVars>>

DoUpdateStatus ==
  /\ \E id \in ApptIds, b \in Businesses, st \in AppointmentStatus : UpdateStatus(id, b, st)
  /\ UNCHANGED <<billVars, now, custVars, bizVars, procVars>>

DoDelete ==
  /\ \E id \in ApptIds, b \in Businesses :
       /\ Delete(id, b)
       /\ invoices' = onDeleteSetNull(invoices, getById(appts, id, b))
  /\ UNCHANGED <<payments, nextInvId, nextPayId, now, custVars, bizVars, procVars>>

\* appointment operations executed one at a time
Next == DoCreate \/ DoUpdate \/ DoUpdateStatus \/ DoDelete

Spec == Init /\ [][Next]_vars

DoCreateCheck ==
  \E p \in Procs, b \in Businesses, c \in Customers, s \in Services, d \in Dates, t \in Times :
    CreateCheck(p, b, c, s, d, t)

DoCreateInsert == \E p \in Procs : CreateInsert(p)

DoReturn == \E p \in Procs : Return(p)

DoCreateInvoice ==
  /\ nextInvId <= MaxInvoices
  /\ \E b \in {"b1"}, c \in Customers, items \in ItemLists, discount \in Discounts,
        dueDate \in DueDates, autoIssue \in BOOLEAN :
       CreateInvoice(b, c, items, discount, dueDate, autoIssue, NoId)
  /\ UNCHANGED <<apptVars, now, custVars, bizVars, procVars>>

DoUpdateInvoice ==
  /\ \E b \in Businesses, id \in InvoiceIds, discount \in Discounts \cup {NoAmount},
        dueDate \in DueDates :
       UpdateInvoice(b, id, discount, dueDate)
  /\ UNCHANGED <<apptVars, now, custVars, bizVars, procVars>>

DoIssue ==
  /\ \E b \in Businesses, id \in InvoiceIds, dueDate \in DueDates : Issue(b, id, dueDate)
  /\ UNCHANGED <<apptVars, now, custVars, bizVars, procVars>>

DoCancel ==
  /\ \E b \in Businesses, id \in InvoiceIds : Cancel(b, id)
  /\ UNCHANGED <<apptVars, now, custVars, bizVars, procVars>>

DoAddPayment ==
  /\ \E b \in Businesses, id \in InvoiceIds, amount \in Amounts : AddPayment(b, id, amount)
  /\ UNCHANGED <<apptVars, now, custVars, bizVars, procVars>>

DoRemovePayment ==
  /\ \E b \in Businesses, id \in InvoiceIds, pid \in PaymentIds : RemovePayment(b, id, pid)
  /\ UNCHANGED <<apptVars, now, custVars, bizVars, procVars>>

\* invoice operations executed one at a time
NextBilling ==
  DoCreateInvoice \/ DoUpdateInvoice \/ DoIssue \/ DoCancel \/ DoAddPayment
    \/ DoRemovePayment \/ Tick

SpecBilling == Init /\ [][NextBilling]_vars

DoCreateIssued ==
  /\ nextInvId <= MaxInvoices
  /\ \E items \in ItemLists : CreateInvoice("b1", "c1", items, 0, NoDate, TRUE, NoId)
  /\ UNCHANGED <<apptVars, now, custVars, bizVars, procVars>>

DoAddPaymentRead ==
  \E p \in Procs, b \in Businesses, id \in InvoiceIds, amount \in Amounts :
    AddPaymentRead(p, b, id, amount)

DoAddPaymentInsert == \E p \in Procs : AddPaymentInsert(p)

DoRemovePaymentRead ==
  \E p \in Procs, b \in Businesses, id \in InvoiceIds, pid \in PaymentIds :
    RemovePaymentRead(p, b, id, pid)

DoRemovePaymentDelete == \E p \in Procs : RemovePaymentDelete(p)

DoStatusRead == \E p \in Procs : StatusRead(p)

DoStatusWrite == \E p \in Procs : StatusWrite(p)

\* concurrent payment requests on issued invoices, interleaved at their round trips
NextPaymentRace ==
  DoCreateIssued \/ DoAddPaymentRead \/ DoAddPaymentInsert \/ DoRemovePaymentRead
    \/ DoRemovePaymentDelete \/ DoStatusRead \/ DoStatusWrite \/ DoReturn

SpecPaymentRace == Init /\ [][NextPaymentRace]_vars

\* concurrent create requests, interleaved at their storage round trips
NextCreateRace == DoCreateCheck \/ DoCreateInsert \/ DoReturn

SpecCreateRace == Init /\ [][NextCreateRace]_vars

\* appointments to invoice: one business's bookings on the working day
DoBook ==
  /\ \E s \in {"s1"}, t \in Times : Create("b1", "c1", s, 1, t)
  /\ UNCHANGED <<billVars, now, custVars, bizVars, procVars>>

DoFromAppointmentCheck ==
  \E p \in Procs, b \in Businesses, id \in ApptIds, autoIssue \in BOOLEAN :
    FromAppointmentCheck(p, b, id, 0, NoDate, autoIssue)

DoInvoiceCreateCheck ==
  \E p \in Procs, b \in Businesses, c \in Customers, items \in ItemLists, id \in ApptIds :
    InvoiceCreateCheck(p, b, c, items, 0, NoDate, FALSE, id)

DoInvoiceNumberRead == \E p \in Procs : InvoiceNumberRead(p)

DoInvoiceInsert == \E p \in Procs : InvoiceInsert(p)

\* concurrent invoice creations for appointments, interleaved at their round trips
NextInvoiceRace ==
  DoBook \/ DoFromAppointmentCheck \/ DoInvoiceCreateCheck \/ DoInvoiceNumberRead
    \/ DoInvoiceInsert \/ DoReturn

SpecInvoiceRace == Init /\ [][NextInvoiceRace]_vars

NumberedIds == 1..MaxNumbered

DoCreateNumbered ==
  /\ nextInvId <= MaxNumbered
  /\ \E b \in Businesses, c \in Customers, items \in ItemLists, autoIssue \in BOOLEAN :
       CreateInvoice(b, c, items, 0, NoDate, autoIssue, NoId)
  /\ UNCHANGED <<apptVars, now, custVars, bizVars, procVars>>

DoCreateFromAppointment ==
  /\ nextInvId <= MaxNumbered
  /\ \E b \in Businesses, id \in ApptIds, autoIssue \in BOOLEAN :
       CreateFromAppointment(b, id, 0, NoDate, autoIssue)
  /\ UNCHANGED <<apptVars, now, custVars, bizVars, procVars>>

DoCancelNumbered ==
  /\ \E b \in Businesses, id \in NumberedIds : Cancel(b, id)
  /\ UNCHANGED <<apptVars, now, custVars, bizVars, procVars>>

\* invoice creations of both businesses, one at a time, with cancellations in between
NextNumbering == DoBook \/ DoCreateNumbered \/ DoCreateFromAppointment \/ DoCancelNumbered

SpecNumbering == Init /\ [][NextNumbering]_vars

\* a booking of either business in the first slot of the working day
DoBookAny ==
  /\ nextApptId <= MaxOwned
  /\ \E b \in Businesses, c \in Customers, s \in {"s1", "s3"} : Create(b, c, s, 1, <<8, 0>>)
  /\ UNCHANGED <<billVars, now, custVars, bizVars, procVars>>

DoGetAppointment ==
  /\ \E id \in ApptIds, b \in Businesses : GetAppointment(id, b)
  /\ UNCHANGED <<billVars, now, custVars, bizVars, procVars>>

\* a move to the second slot, a change of service, or both
DoReschedule ==
  /\ \E id \in ApptIds, b \in Businesses, s \in {NoRef, "s1"}, t \in {NoTime, <<8, 30>>} :
       Update(id, b, NoRef, s, NoDate, t)
  /\ UNCHANGED <<billVars, now, custVars, bizVars, procVars>>

DoSetStatus ==
  /\ \E id \in ApptIds, b \in Businesses, st \in {"CONFIRMED", "CANCELLED"} :
       UpdateStatus(id, b, st)
  /\ UNCHANGED <<billVars, now, custVars, bizVars, procVars>>

DoInvoiceAny ==
  /\ nextInvId <= MaxOwned
  /\ \E b \in Businesses, c \in Customers, items \in ItemLists, autoIssue \in BOOLEAN :
       CreateInvoice(b, c, items, 0, NoDate, autoIssue, NoId)
  /\ UNCHANGED <<apptVars, now, custVars, bizVars, procVars>>

DoInvoiceAppointment ==
  /\ nextInvId <= MaxOwned
  /\ \E b \in Businesses, id \in ApptIds : CreateFromAppointment(b, id, 0, NoDate, TRUE)
  /\ UNCHANGED <<apptVars, now, custVars, bizVars, procVars>>

DoGetInvoice ==
  /\ \E b \in Businesses, id \in InvoiceIds : GetInvoice(b, id)
  /\ UNCHANGED <<apptVars, now, custVars, bizVars, procVars>>

DoSetDueDate ==
  /\ \E b \in Businesses, id \in InvoiceIds : UpdateInvoice(b, id, NoAmount, 0)
  /\ UNCHANGED <<apptVars, now, custVars, bizVars, procVars>>

DoIssueNow ==
  /\ \E b \in Businesses, id \in InvoiceIds : Issue(b, id, NoDate)
  /\ UNCHANGED <<apptVars, now, custVars, bizVars, procVars>>

DoPay ==
  /\ nextPayId <= MaxOwned
  /\ \E b \in Businesses, id \in InvoiceIds, amount \in {1, 3} : AddPayment(b, id, amount)
  /\ UNCHANGED <<apptVars, now, custVars, bizVars, procVars>>

\* every appointment and invoice operation, called by either business on any id
NextTenants ==
  DoBookAny \/ DoGetAppointment \/ DoReschedule \/ DoSetStatus \/ DoDelete
    \/ DoInvoiceAny \/ DoInvoiceAppointment \/ DoGetInvoice \/ DoSetDueDate \/ DoIssueNow
    \/ DoCancel \/ DoPay \/ DoRemovePayment

SpecTenants == Init /\ [][NextTenants]_vars

DoCreateAnyTime ==
  /\ \E b \in Businesses, c \in Customers, s \in Services, d \in Dates, t \in BookingTimes :
       Create(b, c, s, d, t)
  /\ UNCHANGED <<billVars, now, custVars, bizVars, procVars>>

\* bookings at any start time, confirmed or cancelled afterwards
NextBooking == DoCreateAnyTime \/ DoSetStatus

SpecBooking == Init /\ [][NextBooking]_vars

\* one booking, then any status change and any edit of it
NextEditing == DoBookAny \/ DoUpdateStatus \/ DoUpdate

SpecEditing == Init /\ [][NextEditing]_vars

DoGetAvailableSlots ==
  /\ \E b \in Businesses, d \in Dates, s \in SlotServices, duration \in SlotDurations,
        clock \in ClockTimes :
       GetAvailableSlots(b, d, s, duration, clock)
  /\ UNCHANGED <<billVars, now, custVars, bizVars, procVars>>

\* slot queries between bookings, status changes and the passing of days
NextSlots == DoBook \/ DoSetStatus \/ Tick \/ DoGetAvailableSlots

SpecSlots == Init /\ [][NextSlots]_vars

\* item lists with quantities above one, as <<quantity, unitPrice>> pairs
ItemisedLists == {<< <<2, 50>>, <<1, 30>> >>, << <<3, 1>> >>}

ItemisedDiscounts == {0, 10}

DoCreateItemised ==
  /\ nextInvId <= MaxInvoices
  /\ \E c \in {"c1"}, items \in ItemisedLists, discount \in ItemisedDiscounts, autoIssue \in BOOLEAN :
       CreateInvoice("b1", c, items, discount, NoDate, autoIssue, NoId)
  /\ UNCHANGED <<apptVars, now, custVars, bizVars, procVars>>

DoCreateDiscounted ==
  /\ nextInvId <= MaxInvoices
  /\ \E id \in ApptIds, discount \in Discounts, autoIssue \in BOOLEAN :
       CreateFromAppointment("b1", id, discount, NoDate, autoIssue)
  /\ UNCHANGED <<apptVars, now, custVars, bizVars, procVars>>

\* manual and appointment invoices with discounts, and edits of the discount
NextTotals == DoBook \/ DoCreateItemised \/ DoCreateDiscounted \/ DoUpdateInvoice

SpecTotals == Init /\ [][NextTotals]_vars

\* ------------------------------------------------------------------ customers and vehicles
MaxCustomers == 2

MaxVehicles == 3

Phones == {"ph1", "ph2"}

\* brand, model and colour of a vehicle, taken together
VehicleKinds == {"hatch", "suv"}

\* no vehicle object in the request
NoVehicle == [kind |-> NoRef, isDefault |-> FALSE]

\* createVehicleSchema: isDefault is a boolean that defaults to false
VehicleInputs == [kind : VehicleKinds, isDefault : BOOLEAN]

\* updateVehicleSchema: every field optional; isDefault is true, false or left out
VehicleUpdates == [kind : VehicleKinds \cup {NoRef}, isDefault : {"true", "false", "undefined"}]

\* prisma.customer.findUnique({ businessId_phone })
getByPhone(C, phone, businessId) == {c \in C : c.phone = phone /\ c.businessId = businessId}

\* prisma.customer.findFirst({ id, businessId })
getCustomerById(C, customerId, businessId) == {c \in C : c.id = customerId /\ c.businessId = businessId}

vehiclesOf(V, customerId) == {v \in V : v.customerId = customerId}

\* prisma.customer.create with the nested vehicle create, when a vehicle is given
customerWithVehicle(businessId, phone, vehicle) ==
  /\ customerRows' = customerRows \cup
       {[id |-> nextCustomerId, businessId |-> businessId, phone |-> phone]}
  /\ nextCustomerId' = nextCustomerId + 1
  /\ IF vehicle # NoVehicle
       THEN /\ vehicles' = vehicles \cup
                 {[id |-> nextVehicleId, customerId |-> nextCustomerId,
                   kind |-> vehicle.kind, isDefault |-> TRUE]}
            /\ nextVehicleId' = nextVehicleId + 1
       ELSE UNCHANGED <<vehicles, nextVehicleId>>

CreateCustomer(businessId, phone, vehicle) ==
  IF getByPhone(customerRows, phone, businessId) # {}
    THEN /\ lastOp' = Op("createCustomer", NoId, "Conflict")
         /\ UNCHANGED custVars
    ELSE /\ customerWithVehicle(businessId, phone, vehicle)
         /\ lastOp' = Op("createCustomer", NoId, "ok")

\* what findOrCreateWithVehicle writes to the customer and vehicle tables
findOrCreateWithVehicleWrites(businessId, phone, vehicleData) ==
  LET found == getByPhone(customerRows, phone, businessId) IN
  /\ IF found = {}
       THEN customerWithVehicle(businessId, phone, vehicleData)
       ELSE LET customer == CHOOSE c \in found : TRUE
                existingVehicle == {v \in vehiclesOf(vehicles, customer.id) : v.kind = vehicleData.kind}
            IN IF vehicleData # NoVehicle /\ existingVehicle = {}
                 THEN /\ vehicles' = vehicles \cup
                           {[id |-> nextVehicleId, customerId |-> customer.id,
                             kind |-> vehicleData.kind, isDefault |-> FALSE]}
                      /\ nextVehicleId' = nextVehicleId + 1
                      /\ UNCHANGED <<customerRows, nextCustomerId>>
                 ELSE UNCHANGED custVars

FindOrCreateWithVehicle(businessId, phone, vehicleData) ==
  /\ findOrCreateWithVehicleWrites(businessId, phone, vehicleData)
  /\ lastOp' = Op("findOrCreateWithVehicle", NoId, "ok")

\* the checks of appointments create for a customer that findOrCreateWithVehicle has
\* just found or created in the business: the error thrown, or "ok"
publicCreateChecks(A, businessId, serviceId, date, startTime) ==
  IF ~findService(serviceId, businessId) THEN "NotFound"
  ELSE LET endTime == addMinutesToTime(startTime, ServiceTable[serviceId].duration)
           business == BusinessTable[businessId]
       IN IF getDayOfWeek(date) \notin business.workingDays THEN "BadRequest"
          ELSE IF StrLess(startTime, business.openTime) \/ StrLess(business.closeTime, endTime)
                 THEN "BadRequest"
          ELSE IF checkTimeConflict(A, businessId, date, startTime, endTime, NoId)
                 THEN "Conflict"
          ELSE "ok"

\* the public booking: the customer and vehicle writes, then the appointment create,
\* each its own statement with no transaction around them
BookAppointment(businessId, phone, vehicleData, serviceId, date, startTime) ==
  LET found == getByPhone(customerRows, phone, businessId)
      customerId == IF found = {} THEN nextCustomerId ELSE (CHOOSE c \in found : TRUE).id
      checked == publicCreateChecks(appts, businessId, serviceId, date, startTime)
      result == IF checked # "ok" THEN checked
                ELSE insertResult(appts, businessId, date, startTime)
  IN /\ findOrCreateWithVehicleWrites(businessId, phone, vehicleData)
     /\ IF result = "ok"
          THEN /\ appts' = appts \cup
                     {newAppointment(nextApptId, businessId, customerId, serviceId, date, startTime)}
               /\ nextApptId' = nextApptId + 1
          ELSE UNCHANGED apptVars
     /\ lastOp' = Op("bookAppointment", NoId, result)

\* prisma.vehicle.updateMany({ where: { customerId, NOT: { id } }, data: { isDefault: false } });
\* except = NoId clears every vehicle of the customer
clearDefault(V, customerId, except) ==
  {IF v.customerId = customerId /\ v.id # except THEN [v EXCEPT !.isDefault = FALSE] ELSE v : v \in V}

AddVehicle(customerId, businessId, data) ==
  IF getCustomerById(customerRows, customerId, businessId) = {}
    THEN /\ lastOp' = Op("addVehicle", customerId, "NotFound")
         /\ UNCHANGED custVars
    ELSE LET cleared == IF data.isDefault THEN clearDefault(vehicles, customerId, NoId) ELSE vehicles
             vehicleCount == Cardinality(vehiclesOf(cleared, customerId))
             shouldBeDefault == data.isDefault \/ vehicleCount = 0
         IN /\ vehicles' = cleared \cup
                 {[id |-> nextVehicleId, customerId |-> customerId,
                   kind |-> data.kind, isDefault |-> shouldBeDefault]}
            /\ nextVehicleId' = nextVehicleId + 1
            /\ UNCHANGED <<customerRows, nextCustomerId>>
            /\ lastOp' = Op("addVehicle", customerId, "ok")

UpdateVehicle(customerId, vehicleId, businessId, data) ==
  LET found == {v \in vehiclesOf(vehicles, customerId) : v.id = vehicleId} IN
  /\ UNCHANGED <<customerRows, nextCustomerId, nextVehicleId>>
  /\ IF getCustomerById(customerRows, customerId, businessId) = {} \/ found = {}
       THEN /\ lastOp' = Op("updateVehicle", vehicleId, "NotFound")
            /\ UNCHANGED vehicles
       ELSE LET cleared == IF data.isDefault = "true"
                             THEN clearDefault(vehicles, customerId, vehicleId) ELSE vehicles
                vehicle == CHOOSE v \in cleared : v.id = vehicleId
            IN /\ vehicles' = (cleared \ {vehicle}) \cup
                    {[vehicle EXCEPT
                        !.kind = IF data.kind # NoRef THEN data.kind ELSE @,
                        !.isDefault = IF data.isDefault = "undefined" THEN @
                                      ELSE data.isDefault = "true"]}
               /\ lastOp' = Op("updateVehicle", vehicleId, "ok")

\* the row findFirst({ where: { customerId } }) returns is any of the customer's rows: the
\* query has no orderBy
DeleteVehicle(customerId, vehicleId, businessId) ==
  LET found == {v \in vehiclesOf(vehicles, customerId) : v.id = vehicleId} IN
  /\ UNCHANGED <<customerRows, nextCustomerId, nextVehicleId>>
  /\ IF getCustomerById(customerRows, customerId, businessId) = {} \/ found = {}
       THEN /\ lastOp' = Op("deleteVehicle", vehicleId, "NotFound")
            /\ UNCHANGED vehicles
       ELSE LET vehicle == CHOOSE v \in found : TRUE
                remaining == vehicles \ {vehicle}
                others == vehiclesOf(remaining, customerId)
            IN /\ IF vehicle.isDefault /\ others # {}
                    THEN \E firstVehicle \in others :
                           vehicles' = (remaining \ {firstVehicle}) \cup
                                         {[firstVehicle EXCEPT !.isDefault = TRUE]}
                    ELSE vehicles' = remaining
               /\ lastOp' = Op("deleteVehicle", vehicleId, "ok")

CustomerIds == 1..MaxCustomers

VehicleIds == 1..MaxVehicles

DoCreateCustomer ==
  /\ nextCustomerId <= MaxCustomers
  /\ nextVehicleId <= MaxVehicles
  /\ \E phone \in Phones, vehicle \in VehicleInputs \cup {NoVehicle} :
       CreateCustomer("b1", phone, vehicle)
  /\ UNCHANGED <<apptVars, billVars, now, procVars, bizVars>>

DoFindOrCreateWithVehicle ==
  /\ nextCustomerId <= MaxCustomers
  /\ nextVehicleId <= MaxVehicles
  /\ \E phone \in Phones, kind \in VehicleKinds \cup {NoRef} :
       FindOrCreateWithVehicle("b1", phone,
                               IF kind = NoRef THEN NoVehicle ELSE [kind |-> kind, isDefault |-> TRUE])
  /\ UNCHANGED <<apptVars, billVars, now, procVars, bizVars>>

DoAddVehicle ==
  /\ nextVehicleId <= MaxVehicles
  /\ \E b \in Businesses, c \in CustomerIds, data \in VehicleInputs : AddVehicle(c, b, data)
  /\ UNCHANGED <<apptVars, billVars, now, procVars, bizVars>>

DoUpdateVehicle ==
  /\ \E b \in Businesses, c \in CustomerIds, id \in VehicleIds, data \in VehicleUpdates :
       UpdateVehicle(c, id, b, data)
  /\ UNCHANGED <<apptVars, billVars, now, procVars, bizVars>>

DoDeleteVehicle ==
  /\ \E b \in Businesses, c \in CustomerIds, id \in VehicleIds : DeleteVehicle(c, id, b)
  /\ UNCHANGED <<apptVars, billVars, now, procVars, bizVars>>

DoBookAppointment ==
  /\ nextCustomerId <= MaxCustomers
  /\ nextVehicleId <= MaxVehicles
  /\ nextApptId <= MaxAppts
  /\ \E phone \in Phones, kind \in VehicleKinds \cup {NoRef}, s \in {"s1", "s0"},
        d \in Dates, t \in BookingTimes :
       BookAppointment("b1", phone,
                       IF kind = NoRef THEN NoVehicle ELSE [kind |-> kind, isDefault |-> TRUE],
                       s, d, t)
  /\ UNCHANGED <<billVars, now, procVars, bizVars>>

\* public bookings, one request at a time
NextPublic == DoBookAppointment

SpecPublic == Init /\ [][NextPublic]_vars

\* the customers module's writes to the vehicle table, one request at a time
NextVehicles ==
  DoCreateCustomer \/ DoFindOrCreateWithVehicle \/ DoAddVehicle \/ DoUpdateVehicle
    \/ DoDeleteVehicle

SpecVehicles == Init /\ [][NextVehicles]_vars

\* opening and closing times and slot lengths handed to generateTimeSlots
OpenTimes == {<<0, 0>>, <<7, 30>>, <<8, 0>>, <<9, 15>>, <<22, 45>>}

CloseTimes == {<<0, 15>>, <<8, 30>>, <<9, 0>>, <<12, 10>>, <<18, 0>>, <<23, 59>>}

SlotLengths == {15, 20, 30, 45, 60, 480}

DoGenerateTimeSlots ==
  /\ \E openTime \in OpenTimes, closeTime \in CloseTimes, slotDuration \in SlotLengths :
       /\ timeToMinutes(openTime) < timeToMinutes(closeTime)
       /\ lastOp' = [op |-> "generateTimeSlots", result |-> "ok",
                     openTime |-> openTime, closeTime |-> closeTime,
                     slotDuration |-> slotDuration,
                     slots |-> generateTimeSlots(openTime, closeTime, slotDuration)]
  /\ UNCHANGED <<apptVars, billVars, now, custVars, bizVars, procVars>>

NextGenerate == DoGenerateTimeSlots

SpecGenerate == Init /\ [][NextGenerate]_vars

\* ------------------------------------------------------------------ business settings
Users == {"u1", "u2"}

\* opening and closing times that match timeRegex
HourTimes == {<<8, 0>>, <<12, 30>>, <<18, 0>>, <<19, 0>>}

\* the refine of createBusinessSchema: closing after opening, in minutes
createBusinessSchema(data) ==
  data.closeTime[1] * 60 + data.closeTime[2] > data.openTime[1] * 60 + data.openTime[2]

\* updateBusinessSchema: openTime and closeTime each optional, with no refine
updateBusinessSchema(data) == TRUE

\* one business per user: a business row is found by its user
CreateBusiness(userId, data) ==
  IF ~createBusinessSchema(data)
    THEN /\ lastOp' = Op("createBusiness", NoId, "ValidationError")
         /\ UNCHANGED businessRows
  ELSE IF \E business \in businessRows : business.userId = userId
    THEN /\ lastOp' = Op("createBusiness", NoId, "Conflict")
         /\ UNCHANGED businessRows
  ELSE /\ businessRows' = businessRows \cup
            {[userId |-> userId, openTime |-> data.openTime, closeTime |-> data.closeTime]}
       /\ lastOp' = Op("createBusiness", NoId, "ok")

UpdateBusiness(userId, data) ==
  LET found == {business \in businessRows : business.userId = userId} IN
  IF ~updateBusinessSchema(data)
    THEN /\ lastOp' = Op("updateBusiness", NoId, "ValidationError")
         /\ UNCHANGED businessRows
  ELSE IF found = {}
    THEN /\ lastOp' = Op("updateBusiness", NoId, "NotFound")
         /\ UNCHANGED businessRows
  ELSE LET business == CHOOSE row \in found : TRUE
       IN /\ businessRows' = (businessRows \ {business}) \cup
               {[business EXCEPT
                   !.openTime = IF data.openTime # NoTime THEN data.openTime ELSE @,
                   !.closeTime = IF data.closeTime # NoTime THEN data.closeTime ELSE @]}
          /\ lastOp' = Op("updateBusiness", NoId, "ok")

DoCreateBusiness ==
  /\ \E userId \in Users, data \in [openTime : HourTimes, closeTime : HourTimes] :
       CreateBusiness(userId, data)
  /\ UNCHANGED <<apptVars, billVars, now, custVars, procVars>>

DoUpdateBusiness ==
  /\ \E userId \in Users,
        data \in [openTime : HourTimes \cup {NoTime}, closeTime : HourTimes \cup {NoTime}] :
       UpdateBusiness(userId, data)
  /\ UNCHANGED <<apptVars, billVars, now, custVars, procVars>>

\* onboarding and settings requests, one at a time
NextBusiness == DoCreateBusiness \/ DoUpdateBusiness

SpecBusiness == Init /\ [][NextBusiness]_vars

DoCreateLinked ==
  /\ nextInvId <= MaxInvoices
  /\ \E b \in Businesses, c \in Customers, items \in ItemLists, autoIssue \in BOOLEAN,
        id \in ApptIds \cup {NoId} :
       CreateInvoice(b, c, items, 0, NoDate, autoIssue, id)
  /\ UNCHANGED <<apptVars, now, custVars, bizVars, procVars>>

\* manual invoices that name an appointment, beside invoices made from appointments
NextLinked == DoBookAny \/ DoCreateLinked \/ DoCreateFromAppointment

SpecLinked == Init /\ [][NextLinked]_vars

\* ------------------------------------------------------------------ claims
DoubleBooked(a1, a2) ==
  /\ a1.id # a2.id
  /\ a1.businessId = a2.businessId
  /\ a1.date = a2.date
  /\ a1.status # "CANCELLED"
  /\ a2.status # "CANCELLED"
  /\ timeToMinutes(a1.startTime) < timeToMinutes(a2.endTime)
  /\ timeToMinutes(a2.startTime) < timeToMinutes(a1.endTime)

\* C1: after any sequence of create, update, updateStatus and delete executed one at
\* a time, no two non-cancelled appointments of one business on one date have
\* overlapping [startTime, endTime) ranges.
C1_NoDoubleBooking == \A a1, a2 \in appts : ~DoubleBooked(a1, a2)

\* worker p has answered a create request that passed every check before the insert
passedChecks(p) ==
  pc[p] = "done" /\ req[p].kind = "create" /\ req[p].result \in {"ok", "P2002"}

persisted(r) ==
  \E a \in appts :
    /\ a.businessId = r.businessId /\ a.date = r.date /\ a.startTime = r.startTime
    /\ a.serviceId = r.serviceId /\ a.endTime = r.endTime

racedPairs ==
  {x \in Procs \X Procs :
     /\ x[1] # x[2] /\ passedChecks(x[1]) /\ passedChecks(x[2])
     /\ req[x[1]].raced /\ req[x[2]].raced
     /\ req[x[1]].businessId = req[x[2]].businessId
     /\ req[x[1]].date = req[x[2]].date}

\* C2 as stated: two concurrent creates for the same business, date and start time
\* that both passed the overlap check are both persisted.
C2_BothPersisted ==
  \A x \in racedPairs :
    req[x[1]].startTime = req[x[2]].startTime =>
      req[x[1]].result = "ok" /\ req[x[2]].result = "ok"

\* C2 amended: two concurrent creates of one business and date with overlapping ranges
\* can both pass the overlap check before either writes; with equal start times the
\* unique index lets at most one insert through, so both are persisted (a
\* double-booking) only when the start times differ.
C2_RaceOutcome ==
  \A x \in racedPairs :
    LET r1 == req[x[1]]
        r2 == req[x[2]]
        both == r1.result = "ok" /\ r2.result = "ok"
    IN timeRangesOverlap(r1.startTime, r1.endTime, r2.startTime, r2.endTime) =>
         /\ r1.startTime = r2.startTime => ~both
         /\ both => /\ persisted(r1) /\ persisted(r2)
                    /\ \E a1, a2 \in appts : DoubleBooked(a1, a2)

\* both raced creates were persisted with overlapping ranges
C2_Witness ==
  /\ \E x \in racedPairs :
       /\ req[x[1]].startTime # req[x[2]].startTime
       /\ timeRangesOverlap(req[x[1]].startTime, req[x[1]].endTime,
                            req[x[2]].startTime, req[x[2]].endTime)
       /\ req[x[1]].result = "ok" /\ req[x[2]].result = "ok"
  /\ \E a1, a2 \in appts : DoubleBooked(a1, a2)

\* C3: with the unique index on (business, date, startTime) behind the pre-check, no
\* interleaving of concurrent creates leaves two non-cancelled appointments of one
\* business with overlapping ranges on one date.
C3_IndexClosesRace ==
  \A a1, a2 \in appts :
    (/\ a1.id # a2.id /\ a1.businessId = a2.businessId /\ a1.date = a2.date
     /\ a1.status # "CANCELLED" /\ a2.status # "CANCELLED")
    => \/ timeToMinutes(a1.endTime) <= timeToMinutes(a2.startTime)
       \/ timeToMinutes(a2.endTime) <= timeToMinutes(a1.startTime)

AllowedTransitions ==
  {<<"PENDING", "CONFIRMED">>, <<"PENDING", "CANCELLED">>, <<"PENDING", "NO_SHOW">>,
   <<"CONFIRMED", "COMPLETED">>, <<"CONFIRMED", "CANCELLED">>, <<"CONFIRMED", "NO_SHOW">>}

\* C4: a step changes the stored status of an appointment only along PENDING ->
\* CONFIRMED/CANCELLED/NO_SHOW or CONFIRMED -> COMPLETED/CANCELLED/NO_SHOW; any other
\* requested change is rejected and the status stays.
C4_OnlyTableTransitions ==
  [][\A a \in appts : \A a2 \in appts' :
       (a2.id = a.id /\ a2.status # a.status) => <<a.status, a2.status>> \in AllowedTransitions]_vars

\* C5: an appointment whose status is COMPLETED or CANCELLED keeps that status in the
\* next state whenever it still exists; by induction, in every later state.
C5_TerminalStatusKept ==
  [][\A a \in appts : \A a2 \in appts' :
       (a2.id = a.id /\ a.status \in {"COMPLETED", "CANCELLED"}) => a2.status = a.status]_vars

\* a status change or a field edit was just rejected on a terminal appointment
C5_Witness ==
  /\ lastOp.op \in {"updateStatus", "update"}
  /\ lastOp.result = "BadRequest"
  /\ \E a \in appts : a.status \in {"COMPLETED", "CANCELLED"}

\* the invoice with inv's id in the next state
after(inv) == {inv2 \in invoices' : inv2.id = inv.id}

Derived(inv) ==
  /\ inv.status \in {"PAID", "PARTIAL", "PENDING", "OVERDUE"}
  /\ inv.status = "PAID" <=> inv.paidAmount >= inv.total
  /\ inv.status = "PARTIAL" <=> (0 < inv.paidAmount /\ inv.paidAmount < inv.total)

\* C7: a step that adds or removes a payment of a non-cancelled invoice leaves it
\* with the derived status: PAID exactly when paidAmount >= total, PARTIAL exactly
\* when 0 < paidAmount < total, otherwise PENDING or OVERDUE.
C7_StatusIsDerived ==
  [][\A inv \in invoices :
       (/\ inv.status # "CANCELLED"
        /\ paymentsOf(payments', inv.id) # paymentsOf(payments, inv.id))
       => \A inv2 \in after(inv) : Derived(inv2)]_vars

\* C8: an invoice whose status is CANCELLED is CANCELLED in the next state, whatever
\* the operation (issue, update, cancel, addPayment, removePayment and its recomputation).
C8_CancelledStays ==
  [][\A inv \in invoices :
       inv.status = "CANCELLED" => \A inv2 \in after(inv) : inv2.status = "CANCELLED"]_vars

\* C9: one at a time, a step that adds a payment row to an invoice leaves the sum of
\* its payments at most its total, and an addPayment whose amount exceeds total minus
\* paidAmount answers BadRequest and creates no payment row.
C9_NoOverpayment ==
  [][/\ \A inv \in invoices :
          ~(paymentsOf(payments', inv.id) \subseteq paymentsOf(payments, inv.id))
          => sumAmounts(paymentsOf(payments', inv.id)) <= inv.total
     /\ \A inv \in invoices : \A amount \in Amounts :
          (AddPayment(inv.businessId, inv.id, amount) /\ amount > inv.total - inv.paidAmount)
          => (lastOp'.result = "BadRequest" /\ payments' = payments)]_vars

\* an overpayment was just refused on the only invoice, which is open for payment
C9_Witness ==
  /\ lastOp = Op("addPayment", NoId, "BadRequest")
  /\ nextInvId = 2
  /\ \E inv \in invoices : inv.status = "PARTIAL" /\ inv.paidAmount < inv.total
  /\ payments # {}

quiescent == \A p \in Procs : pc[p] \in {"idle", "done"}

\* C6: whenever no addPayment or removePayment call is in progress, every invoice's
\* paidAmount is the sum of the amounts of the payment rows attached to it.
C6_PaidAmountIsSum ==
  quiescent =>
    \A inv \in invoices : inv.paidAmount = sumAmounts(paymentsOf(payments, inv.id))

\* C10: under every interleaving of concurrent addPayment calls, the payments
\* recorded for an invoice never sum to more than its total.
C10_NoOverpaymentUnderRace ==
  \A inv \in invoices : sumAmounts(paymentsOf(payments, inv.id)) <= inv.total

invoicesOf(I, appointmentId) == {inv \in I : inv.appointmentId = appointmentId}

\* C11: under any interleaving of createFromAppointment and create (with
\* appointmentId), at most one invoice references a given appointment, and a creation
\* request answered while the appointment already has an invoice fails and adds none.
C11_OneInvoicePerAppointment ==
  [][/\ \A id \in ApptIds : Cardinality(invoicesOf(invoices', id)) <= 1
     /\ \A p \in Procs :
          (/\ pc[p] # "done" /\ pc'[p] = "done"
           /\ req'[p].kind \in {"createFromAppointment", "createInvoice"}
           /\ invoicesOf(invoices, req'[p].appointmentId) # {})
          => (req'[p].result # "ok" /\ invoices' = invoices)]_vars

\* the unique index has just refused the second of two racing creations for one appointment
C11_Witness ==
  \E p \in Procs :
    /\ pc[p] = "done"
    /\ req[p].kind \in {"createFromAppointment", "createInvoice"}
    /\ req[p].result = "P2002"
    /\ ~\E inv \in invoices : inv.businessId = req[p].businessId /\ inv.number = req[p].number
    /\ invoicesOf(invoices, req[p].appointmentId) # {}

\* the integer a 4-digit invoice number denotes
numberValue(number) == number[1] * 1000 + number[2] * 100 + number[3] * 10 + number[4]

\* C12: one at a time, the first invoice of a business gets NF-0001 and each later one
\* the number of that business's previous invoice plus one, on 4 digits, whatever
\* other businesses create and whatever was cancelled; numbers are unique per business.
C12_SequentialNumbers ==
  [][/\ \A inv \in invoices' :
          inv.id = nextInvId =>
            LET mine == {old \in invoices : old.businessId = inv.businessId} IN
            /\ Len(inv.number) = 4
            /\ \A i \in 1..4 : inv.number[i] \in 0..9
            /\ mine = {} => numberValue(inv.number) = 1
            /\ \A prev \in mine :
                 (\A other \in mine : other.id <= prev.id)
                 => numberValue(inv.number) = numberValue(prev.number) + 1
     /\ \A i1, i2 \in invoices' :
          (i1.businessId = i2.businessId /\ i1.number = i2.number) => i1.id = i2.id]_vars

\* a business numbered 0002 after cancelling its 0001 while another business holds its own 0001
C12_Witness ==
  /\ \E i1, i2, i3 \in invoices :
       /\ i1.businessId = "b1" /\ i1.number = <<0, 0, 0, 1>> /\ i1.status = "CANCELLED"
       /\ i2.businessId = "b2" /\ i2.number = <<0, 0, 0, 1>> /\ i2.id > i1.id
       /\ i3.businessId = "b1" /\ i3.number = <<0, 0, 0, 2>> /\ i3.id > i2.id
  /\ lastOp.op \in {"createInvoice", "createFromAppointment"}

\* the answer and the effect the claim requires of a call on another business's entity
refusedUntouched ==
  /\ lastOp'.result = "NotFound"
  /\ appts' = appts
  /\ invoices' = invoices
  /\ payments' = payments

\* C13: an appointment or invoice operation called with business b and the id of an
\* entity of a different business answers NotFound and changes no stored entity.
C13_TenantIsolation ==
  [][\A b \in Businesses :
       /\ \A apt \in appts :
            apt.businessId # b =>
              /\ GetAppointment(apt.id, b) => refusedUntouched
              /\ (\E x \in UpdateData : Update(apt.id, b, x[1], x[2], x[3], x[4]))
                   => refusedUntouched
              /\ (\E st \in AppointmentStatus : UpdateStatus(apt.id, b, st)) => refusedUntouched
              /\ Delete(apt.id, b) => refusedUntouched
              /\ (\E autoIssue \in BOOLEAN :
                    CreateFromAppointment(b, apt.id, 0, NoDate, autoIssue)) => refusedUntouched
       /\ \A inv \in invoices :
            inv.businessId # b =>
              /\ GetInvoice(b, inv.id) => refusedUntouched
              /\ (\E discount \in Discounts \cup {NoAmount}, dueDate \in DueDates :
                    UpdateInvoice(b, inv.id, discount, dueDate)) => refusedUntouched
              /\ (\E dueDate \in DueDates \cup {NoDate} : Issue(b, inv.id, dueDate))
                   => refusedUntouched
              /\ Cancel(b, inv.id) => refusedUntouched
              /\ (\E amount \in Amounts : AddPayment(b, inv.id, amount)) => refusedUntouched
              /\ (\E pid \in PaymentIds : RemovePayment(b, inv.id, pid)) => refusedUntouched]_vars

\* a business has just been refused on the other business's paid invoice while an
\* appointment of the other business is booked
C13_Witness ==
  /\ lastOp.result = "NotFound"
  /\ lastOp.op \in {"cancel", "addPayment", "removePayment", "issue", "updateInvoice", "getInvoice"}
  /\ \E inv \in invoices : inv.businessId = "b2" /\ inv.paidAmount > 0
  /\ \E apt \in appts : apt.businessId = "b2"

\* the request is outside the operating days or hours of the business
outsideHours(businessId, serviceId, date, startTime) ==
  LET business == BusinessTable[businessId] IN
  \/ getDayOfWeek(date) \notin business.workingDays
  \/ timeToMinutes(startTime) < timeToMinutes(business.openTime)
  \/ timeToMinutes(startTime) + ServiceTable[serviceId].duration > timeToMinutes(business.closeTime)

\* every appointment a step adds is PENDING, ends duration after its start and lies in
\* the opening hours
persistedWithinHours ==
  \A apt \in {a \in appts' : \A prior \in appts : prior.id # a.id} :
    LET business == BusinessTable[apt.businessId] IN
    /\ apt.status = "PENDING"
    /\ timeToMinutes(apt.endTime) =
         timeToMinutes(apt.startTime) + ServiceTable[apt.serviceId].duration
    /\ timeToMinutes(business.openTime) <= timeToMinutes(apt.startTime)
    /\ timeToMinutes(apt.endTime) <= timeToMinutes(business.closeTime)

\* C14 as stated: create answers BadRequest and persists nothing whenever the date is
\* not an operating day, or startTime < openTime, or startTime + duration > closeTime;
\* every appointment it persists is PENDING, with endTime = startTime + duration,
\* inside the opening hours.
C14_OutsideHoursIsBadRequest ==
  [][/\ \A b \in Businesses, c \in Customers, s \in Services, d \in Dates, t \in BookingTimes :
          (Create(b, c, s, d, t) /\ outsideHours(b, s, d, t))
          => (lastOp'.result = "BadRequest" /\ appts' = appts)
     /\ persistedWithinHours]_vars

\* C14 amended: the same, for a create whose service is an active service of the
\* business and whose customer belongs to it; otherwise create answers NotFound
\* (and persists nothing) before it looks at the day and the hours.
C14_OutsideHoursRejected ==
  [][/\ \A b \in Businesses, c \in Customers, s \in Services, d \in Dates, t \in BookingTimes :
          (Create(b, c, s, d, t) /\ outsideHours(b, s, d, t))
          => /\ appts' = appts
             /\ lastOp'.result =
                  IF findService(s, b) /\ findCustomer(c, b) THEN "BadRequest" ELSE "NotFound"
     /\ persistedWithinHours]_vars

\* a create has just been refused for its day or hours while a booking exists
C14_Witness ==
  /\ lastOp = Op("create", NoId, "BadRequest")
  /\ \E apt \in appts : apt.status = "PENDING" /\ apt.endTime = <<9, 0>>

\* [startTime, startTime + duration) meets a non-cancelled appointment of the business
\* on the date: startA < endB and startB < endA, in minutes
overlapsBooked(businessId, serviceId, date, startTime) ==
  \E apt \in appts :
    /\ apt.businessId = businessId /\ apt.date = date /\ apt.status # "CANCELLED"
    /\ timeToMinutes(startTime) < timeToMinutes(apt.endTime)
    /\ timeToMinutes(apt.startTime) < timeToMinutes(startTime) + ServiceTable[serviceId].duration

\* C15: a create that passes the service, customer, day and hours checks fails with
\* Conflict exactly when its range overlaps a non-cancelled appointment of the business
\* on that date; otherwise (back-to-back ranges included) it is accepted and persisted;
\* a rejected create persists nothing.
C15_ConflictIffOverlap ==
  [][\A b \in Businesses, c \in Customers, s \in Services, d \in Dates, t \in BookingTimes :
       (/\ Create(b, c, s, d, t)
        /\ findService(s, b) /\ findCustomer(c, b) /\ ~outsideHours(b, s, d, t))
       => IF overlapsBooked(b, s, d, t)
            THEN lastOp'.result = "Conflict" /\ appts' = appts
            ELSE /\ lastOp'.result = "ok"
                 /\ \E apt \in appts' :
                      /\ apt.id = nextApptId /\ apt.businessId = b /\ apt.date = d
                      /\ apt.startTime = t]_vars

\* C16: update called on an appointment whose status is COMPLETED or CANCELLED is
\* rejected and leaves the appointment, every stored field of it, as it was.
C16_TerminalNotEditable ==
  [][\A apt \in appts : \A x \in UpdateData :
       (/\ apt.status \in {"COMPLETED", "CANCELLED"}
        /\ Update(apt.id, apt.businessId, x[1], x[2], x[3], x[4]))
       => (lastOp'.result = "BadRequest" /\ appts' = appts)]_vars

\* an update has just been refused and every stored appointment is completed or cancelled
C16_Witness ==
  /\ lastOp = Op("update", NoId, "BadRequest")
  /\ appts # {}
  /\ \A apt \in appts : apt.status \in {"COMPLETED", "CANCELLED"}

\* the service, date and start time an appointment has after an update with payload x
resulting(apt, x) ==
  [serviceId |-> IF x[2] # NoRef THEN x[2] ELSE apt.serviceId,
   date |-> IF x[3] # NoDate THEN x[3] ELSE apt.date,
   startTime |-> IF x[4] # NoTime THEN x[4] ELSE apt.startTime]

\* payloads that change the service, the date or the start time and nothing else
ScheduleChanges ==
  {x \in UpdateData : x[1] = NoRef /\ (x[2] # NoRef \/ x[3] # NoDate \/ x[4] # NoTime)}

\* C17: an update that changes the service, the date or the start time recomputes
\* endTime from the resulting service's duration and fails with Conflict exactly when
\* the resulting range on the resulting date overlaps a non-cancelled appointment of
\* the business other than the one updated; otherwise it is accepted.
C17_UpdateConflictIffOverlap ==
  [][\A apt \in appts : \A x \in ScheduleChanges :
       LET r == resulting(apt, x)
           endMin == timeToMinutes(r.startTime) + ServiceTable[r.serviceId].duration
           overlap ==
             \E other \in appts :
               /\ other.id # apt.id /\ other.businessId = apt.businessId
               /\ other.date = r.date /\ other.status # "CANCELLED"
               /\ timeToMinutes(r.startTime) < timeToMinutes(other.endTime)
               /\ timeToMinutes(other.startTime) < endMin
       IN (/\ apt.status \notin {"COMPLETED", "CANCELLED"}
           /\ findService(r.serviceId, apt.businessId)
           /\ Update(apt.id, apt.businessId, x[1], x[2], x[3], x[4]))
          => IF overlap
               THEN lastOp'.result = "Conflict" /\ appts' = appts
               ELSE /\ lastOp'.result = "ok"
                    /\ \E a2 \in appts' :
                         /\ a2.id = apt.id /\ a2.serviceId = r.serviceId /\ a2.date = r.date
                         /\ a2.startTime = r.startTime
                         /\ timeToMinutes(a2.endTime) = endMin]_vars

\* C18: after every successful update that changes the date, the start time or the
\* service, the appointment's date is an operating day of the business and
\* openTime <= startTime and endTime <= closeTime.
C18_UpdateRevalidatesHours ==
  [][\A apt \in appts : \A a2 \in appts' :
       (/\ a2.id = apt.id
        /\ lastOp'.op = "update" /\ lastOp'.result = "ok"
        /\ (a2.date # apt.date \/ a2.startTime # apt.startTime \/ a2.serviceId # apt.serviceId))
       => LET business == BusinessTable[a2.businessId] IN
          /\ getDayOfWeek(a2.date) \in business.workingDays
          /\ timeToMinutes(business.openTime) <= timeToMinutes(a2.startTime)
          /\ timeToMinutes(a2.endTime) <= timeToMinutes(business.closeTime)]_vars

\* the grid of start times from opening, every step minutes, strictly before closing
gridStarts(businessId, step) ==
  LET open == timeToMinutes(BusinessTable[businessId].openTime)
      close == timeToMinutes(BusinessTable[businessId].closeTime)
  IN {m \in open..close : m < close /\ (m - open) % step = 0}

\* the answer lists exactly the grid of the given step, in ascending order
listsGrid(slots, businessId, step) ==
  LET open == timeToMinutes(BusinessTable[businessId].openTime) IN
  /\ Len(slots) = Cardinality(gridStarts(businessId, step))
  /\ \A i \in 1..Len(slots) : timeToMinutes(slots[i].time) = open + (i - 1) * step

\* C19: getAvailableSlots works with the service's duration if a serviceId is given
\* and that service is active in the business, otherwise with the explicit duration if
\* one is given, otherwise with the business's default slot duration; seen on an
\* operating day in the spacing of the slots it returns.
C19_DurationResolution ==
  [][\A b \in Businesses, d \in Dates, s \in SlotServices, duration \in SlotDurations,
        clock \in ClockTimes :
       (/\ GetAvailableSlots(b, d, s, duration, clock)
        /\ getDayOfWeek(d) \in BusinessTable[b].workingDays)
       => listsGrid(lastOp'.slots, b,
                    IF s \in Services /\ ServiceTable[s].businessId = b /\ ServiceTable[s].isActive
                      THEN ServiceTable[s].duration
                    ELSE IF duration # NoDuration THEN duration
                    ELSE BusinessTable[b].slotDuration)]_vars

\* C20: getAvailableSlots returns the empty sequence on a non-operating day; otherwise
\* one entry per start time of the grid, in order, available exactly when the slot
\* overlaps no non-cancelled appointment of the business on the date and is not a
\* past slot of today (slots ending after closing are listed too); and it writes nothing.
C20_SlotsAnswer ==
  [][\A b \in Businesses, d \in Dates, s \in SlotServices, duration \in SlotDurations,
        clock \in ClockTimes :
       GetAvailableSlots(b, d, s, duration, clock)
       => LET step == slotQueryDuration(b, s, duration)
              slots == lastOp'.slots
          IN /\ appts' = appts /\ invoices' = invoices /\ payments' = payments
             /\ IF getDayOfWeek(d) \notin BusinessTable[b].workingDays
                  THEN slots = <<>>
                  ELSE /\ listsGrid(slots, b, step)
                       /\ \A i \in 1..Len(slots) :
                            LET start == timeToMinutes(slots[i].time) IN
                            slots[i].available <=>
                              /\ ~\E apt \in appts :
                                    /\ apt.businessId = b /\ apt.date = d
                                    /\ apt.status # "CANCELLED"
                                    /\ start < timeToMinutes(apt.endTime)
                                    /\ timeToMinutes(apt.startTime) < start + step
                              /\ ~(d = now /\ start < timeToMinutes(clock))]_vars

\* an answer for today at 08:15 with a 45-minute grid: the first slot is past, the
\* second, ending after closing, is listed and free beside a cancelled 08:30 booking
C20_Witness ==
  /\ lastOp.op = "getAvailableSlots"
  /\ lastOp.clock = <<8, 15>>
  /\ now = 1
  /\ Len(lastOp.slots) = 2
  /\ lastOp.slots[1] = [time |-> <<8, 0>>, available |-> FALSE]
  /\ lastOp.slots[2] = [time |-> <<8, 45>>, available |-> TRUE]
  /\ \E apt \in appts : apt.status = "CANCELLED" /\ apt.startTime = <<8, 30>>

C22_LastPaymentRemoved ==
  [][\A inv \in invoices : \A inv2 \in after(inv) :
       (/\ inv.status \in {"PAID", "PARTIAL"}
        /\ paymentsOf(payments, inv.id) # {}
        /\ paymentsOf(payments', inv.id) = {})
       => /\ inv2.status = IF inv.dueDate # NoDate /\ inv.dueDate < now THEN "OVERDUE"
                           ELSE "PENDING"
          /\ inv2.paidAmount = 0
          /\ inv2.paidAt = NoDate]_vars

\* C23: addPayment on a CANCELLED, DRAFT or PAID invoice answers BadRequest, creates
\* no payment row and leaves the invoice (paidAmount, status, paidAt) as it was; an
\* invoice in DRAFT never has a payment attached.
C23_NoPaymentOnClosedOrDraft ==
  [][/\ \A inv \in invoices : \A amount \in Amounts :
          (/\ inv.status \in {"CANCELLED", "DRAFT", "PAID"}
           /\ AddPayment(inv.businessId, inv.id, amount))
          => /\ lastOp'.result = "BadRequest"
             /\ payments' = payments
             /\ invoices' = invoices
     /\ \A inv2 \in invoices' :
          inv2.status = "DRAFT" => paymentsOf(payments', inv2.id) = {}]_vars

\* a payment has just been refused; the invoices are a draft one and a cancelled one,
\* both of positive total, and no payment exists
C23_Witness ==
  /\ lastOp = Op("addPayment", NoId, "BadRequest")
  /\ payments = {}
  /\ \E inv \in invoices : inv.status = "DRAFT" /\ inv.total > 0
  /\ \E inv \in invoices : inv.status = "CANCELLED" /\ inv.total > 0

\* C24: issue succeeds only on a DRAFT invoice, setting status PENDING and issuedAt =
\* now; on any other status it answers BadRequest and changes nothing; and no step
\* takes an invoice that has left DRAFT back to DRAFT.
C24_IssueOnlyDraft ==
  [][\A inv \in invoices : \A inv2 \in after(inv) :
       /\ \A dueDate \in DueDates \cup {NoDate} :
            (lastOp'.op = "issue" /\ Issue(inv.businessId, inv.id, dueDate))
            => IF inv.status = "DRAFT"
                 THEN /\ lastOp'.result = "ok"
                      /\ inv2.status = "PENDING" /\ inv2.issuedAt = now
                 ELSE /\ lastOp'.result = "BadRequest"
                      /\ invoices' = invoices /\ payments' = payments
       /\ inv.status # "DRAFT" => inv2.status # "DRAFT"]_vars

\* an issue has just been refused on an invoice that was issued on an earlier day
C24_Witness ==
  /\ lastOp = Op("issue", NoId, "BadRequest")
  /\ now = 1
  /\ \E inv \in invoices : inv.status = "PENDING" /\ inv.issuedAt = 0

\* C25: cancel succeeds from DRAFT, PENDING, PARTIAL and OVERDUE, setting status
\* CANCELLED and changing no other field and no payment; from PAID or CANCELLED it
\* answers BadRequest and leaves the invoice unchanged.
C25_CancelRules ==
  [][\A inv \in invoices : \A inv2 \in after(inv) :
       (lastOp'.op = "cancel" /\ Cancel(inv.businessId, inv.id))
       => IF inv.status \in {"DRAFT", "PENDING", "PARTIAL", "OVERDUE"}
            THEN /\ lastOp'.result = "ok"
                 /\ inv2 = [inv EXCEPT !.status = "CANCELLED"]
                 /\ invoices' \ {inv2} = invoices \ {inv}
                 /\ payments' = payments
            ELSE /\ lastOp'.result = "BadRequest"
                 /\ invoices' = invoices /\ payments' = payments]_vars

\* a partially paid invoice has just been cancelled and keeps its payment, beside a
\* paid invoice
C25_Witness ==
  /\ lastOp = Op("cancel", NoId, "ok")
  /\ \E inv \in invoices :
       /\ inv.status = "CANCELLED" /\ inv.paidAmount > 0
       /\ paymentsOf(payments, inv.id) # {}
  /\ \E inv \in invoices : inv.status = "PAID"

\* C26: update succeeds only while the invoice is DRAFT; on any other status it
\* answers BadRequest and leaves discount, total and dueDate unchanged; the total of
\* an invoice that is not DRAFT never changes.
C26_UpdateOnlyDraft ==
  [][\A inv \in invoices : \A inv2 \in after(inv) :
       /\ \A discount \in Discounts \cup {NoAmount}, dueDate \in DueDates :
            (lastOp'.op = "updateInvoice" /\ UpdateInvoice(inv.businessId, inv.id, discount, dueDate))
            => IF inv.status = "DRAFT"
                 THEN lastOp'.result = "ok"
                 ELSE lastOp'.result = "BadRequest" /\ invoices' = invoices
       /\ inv.status # "DRAFT" => inv2.total = inv.total]_vars

\* an update has just been refused on an issued invoice whose total differs from its
\* subtotal by a discount
C26_Witness ==
  /\ lastOp = Op("updateInvoice", NoId, "BadRequest")
  /\ \E inv \in invoices : inv.status = "PENDING" /\ inv.discount = 4 /\ inv.total = inv.subtotal - 4

\* the sum of quantity x unitPrice over the item rows, counted row by row
C27_ItemsTotal(items) ==
  LET upTo[n \in 0..Len(items)] ==
        IF n = 0 THEN 0 ELSE upTo[n - 1] + items[n][1] * items[n][2]
  IN upTo[Len(items)]

C28_ExactlyOneDefault ==
  \A c \in customerRows :
    vehiclesOf(vehicles, c.id) # {}
      => Cardinality({v \in vehiclesOf(vehicles, c.id) : v.isDefault}) = 1

\* C29: for every opening time, later closing time and duration of at least 15
\* minutes, generateTimeSlots returns a finite, strictly increasing sequence of "HH:mm"
\* times that begins at the opening time, has consecutive elements exactly duration
\* apart, holds every open + k*duration below the closing time and nothing at or past
\* it.
C29_SlotsExact ==
  lastOp.op = "generateTimeSlots" =>
    LET slots == lastOp.slots
        open == lastOp.openTime[1] * 60 + lastOp.openTime[2]
        close == lastOp.closeTime[1] * 60 + lastOp.closeTime[2]
        at(i) == slots[i][1] * 60 + slots[i][2]
    IN /\ Len(slots) >= 1
       /\ slots[1] = lastOp.openTime
       /\ \A i \in 1..Len(slots) :
            /\ slots[i][1] \in 0..23 /\ slots[i][2] \in 0..59
            /\ at(i) < close
       /\ \A i \in 1..(Len(slots) - 1) :
            /\ at(i + 1) = at(i) + lastOp.slotDuration
            /\ StrLess(slots[i], slots[i + 1])
       /\ \A k \in 0..(close - open) :
            open + k * lastOp.slotDuration < close
              => \E i \in 1..Len(slots) : at(i) = open + k * lastOp.slotDuration

\* slots of 30 minutes between 08:00 and 09:00: the closing time is a multiple of the
\* duration away from the opening time and is not a slot
C29_Witness ==
  /\ lastOp.op = "generateTimeSlots"
  /\ lastOp.openTime = <<8, 0>> /\ lastOp.closeTime = <<9, 0>> /\ lastOp.slotDuration = 30
  /\ lastOp.slots = << <<8, 0>>, <<8, 30>> >>

\* C30: an updateStatus that would take an appointment out of COMPLETED or CANCELLED
\* to a different status fails with a Conflict error, not with BadRequest.
C30_TerminalIsConflict ==
  [][\A apt \in appts, status \in AppointmentStatus :
       ( /\ lastOp'.op = "updateStatus"
         /\ UpdateStatus(apt.id, apt.businessId, status)
         /\ apt.status \in {"COMPLETED", "CANCELLED"}
         /\ status # apt.status )
       => lastOp'.result = "Conflict"]_vars

\* C31: createFromAppointment for an appointment that already has an invoice fails
\* with a Conflict error.
C31_DuplicateInvoiceIsConflict ==
  [][\A apt \in appts, autoIssue \in BOOLEAN :
       ( /\ lastOp'.op = "createFromAppointment"
         /\ CreateFromAppointment(apt.businessId, apt.id, 0, NoDate, autoIssue)
         /\ \E inv \in invoices : inv.appointmentId = apt.id )
       => lastOp'.result = "Conflict"]_vars

\* C32: while an invoice is not cancelled its paidAmount never goes down: no step
\* taken on a non-cancelled invoice lowers paidAmount.
C32_PaidAmountMonotone ==
  [][\A inv \in invoices : \A inv2 \in after(inv) :
       inv.status # "CANCELLED" => inv2.paidAmount >= inv.paidAmount]_vars

\* C33: after any sequence of business create and business update calls, every
\* business has closeTime strictly later than openTime.
C33_CloseAfterOpen ==
  \A business \in businessRows : StrLess(business.openTime, business.closeTime)

\* C34: a cancelled appointment never blocks a new booking: once an appointment is
\* CANCELLED, a create for its business, date and start time that passes every other
\* check and overlaps no non-cancelled appointment succeeds and persists a new PENDING
\* appointment.
C34_CancelledNeverBlocks ==
  [][\A old \in appts, c \in Customers, s \in Services :
       ( /\ old.status = "CANCELLED"
         /\ lastOp'.op = "create"
         /\ Create(old.businessId, c, s, old.date, old.startTime)
         /\ createChecks(appts, old.businessId, c, s, old.date, old.startTime) = "ok" )
       => /\ lastOp'.result = "ok"
          /\ \E apt \in appts' :
               /\ apt.id = nextApptId /\ apt.status = "PENDING"
               /\ apt.businessId = old.businessId /\ apt.date = old.date
               /\ apt.startTime = old.startTime]_vars

\* C35: createFromAppointment creates an invoice only for a COMPLETED appointment; for
\* an appointment in PENDING, CONFIRMED, CANCELLED or NO_SHOW it is rejected and no
\* invoice is created.
C35_OnlyCompletedInvoiced ==
  [][\A apt \in appts, autoIssue \in BOOLEAN :
       ( /\ lastOp'.op = "createFromAppointment"
         /\ CreateFromAppointment(apt.businessId, apt.id, 0, NoDate, autoIssue)
         /\ apt.status # "COMPLETED" )
       => (lastOp'.result # "ok" /\ invoices' = invoices)]_vars

\* the entries getAvailableSlots returns for start time t of service s on a date
C36_Reported(businessId, date, s, t) ==
  LET slots == getAvailableSlots(appts, businessId, date, s, NoDuration, now, <<0, 0>>)
  IN {slots[i] : i \in {j \in 1..Len(slots) : slots[j].time = t}}

\* C36: availability and booking agree: for a date after today and an active service
\* S, a create at start time t with service S, taken in the state getAvailableSlots
\* was answered in, succeeds if t is reported available and t + S.duration is not
\* after closeTime, and fails with Conflict if t is reported unavailable.
C36_SlotsAgreeWithCreate ==
  [][\A b \in Businesses, c \in Customers, s \in Services, d \in Dates, t \in Times :
       ( /\ lastOp'.op = "create"
         /\ Create(b, c, s, d, t)
         /\ findService(s, b) /\ findCustomer(c, b) /\ d > now )
       => \A slot \in C36_Reported(b, d, s, t) :
            /\ ( /\ slot.available
                 /\ ~StrLess(BusinessTable[b].closeTime,
                             addMinutesToTime(t, ServiceTable[s].duration)) )
                 => lastOp'.result = "ok"
            /\ ~slot.available => lastOp'.result = "Conflict"]_vars

\* C37: every invoice that is linked to an appointment is linked to an appointment of
\* the invoice's own business and customer; a manual create naming an appointment of
\* another business or customer creates nothing.
C37_LinkedWithinTenant ==
  \A inv \in invoices :
    inv.appointmentId # NoId
      => \E apt \in appts :
           /\ apt.id = inv.appointmentId
           /\ apt.businessId = inv.businessId
           /\ apt.customerId = inv.customerId

\* C38: a public booking is all-or-nothing: when its appointment creation fails with
\* NotFound, BadRequest or Conflict, no customer or vehicle created earlier in the
\* same request remains stored.
C38_BookingAllOrNothing ==
  [][(lastOp'.op = "bookAppointment" /\ lastOp'.result \in {"NotFound", "BadRequest", "Conflict"})
       => (customerRows' = customerRows /\ vehicles' = vehicles)]_vars

\* C39: every stored invoice has total >= 0: a discount larger than the subtotal is
\* never stored, neither at creation nor through update.
C39_TotalNeverNegative == \A inv \in invoices : inv.total >= 0

\* the highest invoice number a business has in I, 0 when it has none
C40_LastNumber(I, businessId) ==
  LET mine == {numberValue(inv.number) : inv \in {i \in I : i.businessId = businessId}}
  IN IF mine = {} THEN 0 ELSE CHOOSE n \in mine : \A m \in mine : m <= n

\* C40: under every interleaving of concurrent invoice creations in one business, each
\* reading the latest number and then inserting, no two persisted invoices of the
\* business carry the same number: an insert either persists the number after the
\* business's latest one, or fails and persists nothing, the number it read having been
\* persisted by the other creation.
C40_NoDuplicateNumbers ==
  [][/\ \A i1, i2 \in invoices' :
          (i1.businessId = i2.businessId /\ i1.number = i2.number) => i1.id = i2.id
     /\ \A p \in Procs :
          (pc[p] = "inv_insert" /\ pc'[p] = "done")
          => IF req'[p].result = "ok"
               THEN \E inv \in invoices' \ invoices :
                      /\ invoices' = invoices \cup {inv}
                      /\ inv.businessId = req[p].businessId
                      /\ numberValue(inv.number) = C40_LastNumber(invoices, inv.businessId) + 1
               ELSE /\ invoices' = invoices
                    /\ ( /\ req'[p].result = "P2002"
                         /\ \A inv \in invoices : inv.appointmentId # req[p].appointmentId )
                         => \E inv \in invoices :
                              /\ inv.businessId = req[p].businessId
                              /\ inv.number = req[p].number]_vars

\* the unique index has just refused the second of two racing creations that read the
\* same number for different appointments
C40_Witness ==
  \E p \in Procs :
    /\ pc[p] = "done"
    /\ req[p].kind \in {"createFromAppointment", "createInvoice"}
    /\ req[p].result = "P2002"
    /\ \E inv \in invoices : inv.businessId = req[p].businessId /\ inv.number = req[p].number
    /\ \A inv \in invoices : inv.appointmentId # req[p].appointmentId
====
